---- MODULE Spec2Model ----
(***************************************************************************)
(* A model of the marker-resolution and categorical-binning core of        *)
(* cherita (cherita/utils/models.py, cherita/utils/adata_utils.py,         *)
(* cherita/plotting/resampling.py).                                        *)
(*                                                                         *)
(* Positions are 0-based as in the Python source; TLA+ sequences are       *)
(* 1-based, so position k of an array a is a[k + 1].                       *)
(***************************************************************************)
EXTENDS Integers, Sequences, FiniteSets, TLC

\* ------------------------------------------------------------------ bounds
\* Largest number of features (columns of X) of a dataset.
MaxVars == 2
\* Largest number of observations (rows of X) of a dataset.
MaxObs == 2
\* Largest number of members of a marker set reference.
MaxSetLen == 2
\* Largest number of rows of an observation column drawn cell by cell.
MaxLen == 3
\* Largest number of categories of a stored categorical column.
MaxCats == 3
\* Largest explicit nBins of a binning request (the default is DefaultNBins).
MaxNBins == 2
\* Largest length of a vector handed to resample.
MaxVecLen == 3
\* Largest nsamples handed to resample.
MaxSamples == 3

\* ------------------------------------------------------- program constants
\* The default of the nBins parameter of continuous2categorical and
\* discrete2categorical.
DefaultNBins == 5
\* resample makes len(data) * 100 draws to estimate the distribution.
DrawsPerItem == 100

VARIABLES
    \* --- the dataset handle (adata_group) and one marker request
    nVars,      \* number of features: len(var index) = X.shape[1]
    nObs,       \* number of observations: X.shape[0]
    mpc,        \* position of the marker request: "start" | "resolved" | "failed" | "off"
    mref,       \* the reference handed to Marker.from_any
    marker,     \* the Marker instance built, NoMarker before / on failure
    raised,     \* the exception that left the last call, "none" when it returned
    lastOp,     \* the last call made: "none" | "from_any" | "get_X_at" | "X"
    rowsArg,    \* the `indices` argument of the last get_X_at call
    result,     \* the value returned by the last get_X_at / X call
    xReads,     \* reads of adata_group.X made by the last get_X_at / X call
    aggCalls,   \* invocations of _aggregation_function made by the last call
    \* --- one observation column and the calls made on it
    stored,     \* the column as stored: a plain array or a categorical group
    cpc,        \* position: "stored" | "parsed" | "done" | "off"
    decoded,    \* parse_data(stored): the typed in-memory column
    colOp,      \* the last call on the column: "none" | "parse_data" |
                \*   "to_categorical" | "type_category" | "type_bool" | "type_discrete"
    creq,       \* the arguments of the last to_categorical call
    cres,       \* what the last to_categorical call returned
    cmeta,      \* what the last type_* call returned
    \* --- one resample call and the process-wide generator it draws from
    rng,        \* the state of the global np.random generator
    rpc,        \* position: "start" | "seeded" | "drawn" | "done" | "failed" | "off"
    rdata,      \* the data argument of resample
    rn,         \* the nsamples argument of resample
    rar,        \* ar: the share of the draws each distinct value received
    rout,       \* resamples: the list built and returned
    rerr,       \* the exception that left resample, "none" otherwise
    \* --- one HTTP request to a dataset or plotting resource
    qpc,        \* position: "received" | "opened" | "returned" | "done" | "off"
    qreq,       \* the JSON body of the request and the entry point it reaches
    qout,       \* what the handler returned or raised
    handles,    \* dataset handles opened by open_anndata_zarr and not yet reclaimed
    \* --- one request to a disease resource and the remote search service
    fpc,        \* position: "start" | "fetched" | "done" | "off"
    freq,       \* the entry point and whether STRAPI_API is configured
    fremote,    \* how the remote service answers the GET
    fres,       \* what get_from_strapi returned
    fout,       \* what the post method returned or raised
    \* --- one streamed obs/cols response
    spc,        \* "start" | "open" | "columns" | "closed" | "aborted" | "rejected" | "off"
    sreq,       \* the request: whether its url opens, and its columns in order
    sidx,       \* how many columns the loop has gone through
    semitted,   \* the chunks yielded so far
    sfailed,    \* the columns whose metadata computation raised
    slog,       \* the columns whose failure was logged
    scache,     \* the cache: the <<key, value>> pairs it holds
    sraised,    \* the exception that ended the request, "none" otherwise
    \* --- two requests and the cache keys computed for them
    kpc,        \* "first" | "second" | "done" | "off"
    kfirst,     \* the earlier request and its key
    ksecond,    \* the later request and its key
    \* --- two requests resampling in parallel threads of one process
    tpc,        \* per thread: "start" | "seeded" | "drawn" | "done" | "off"
    tdata,      \* per thread: the data argument of resample
    tn,         \* per thread: the nsamples argument
    tar,        \* per thread: the local `ar`
    tout,       \* per thread: the local `resamples`
    \* --- the cache object and its Redis backend
    bup,        \* whether the connection to the backend works
    bstore,     \* the keys the backend holds, with their values
    bop,        \* the last operation called on the cache
    bret,       \* what that call returned or raised
    \* --- results of the column metadata and histogram functions
    cnum,       \* the result of type_numeric
    chist       \* the result of get_obs_col_histograms

mvars == <<nVars, nObs, mpc, mref, marker, raised, lastOp, rowsArg, result,
           xReads, aggCalls>>

cvars == <<stored, cpc, decoded, colOp, creq, cres, cmeta, cnum, chist>>

rvars == <<rng, rpc, rdata, rn, rar, rout, rerr>>

qvars == <<qpc, qreq, qout, handles>>

fvars == <<fpc, freq, fremote, fres, fout>>

svars == <<spc, sreq, sidx, semitted, sfailed, slog, scache, sraised>>

kvars == <<kpc, kfirst, ksecond>>

tvars == <<tpc, tdata, tn, tar, tout>>

bvars == <<bup, bstore, bop, bret>>

\* The cache keys, the worker threads and the cache backend.
ovars == <<kvars, tvars, bvars>>

\* The state of the HTTP layer.
xvars == <<qvars, fvars, svars, ovars>>

vars == <<mvars, cvars, rvars, xvars>>

\* ------------------------------------------------------------- the dataset
\* The feature axis get_group_index(adata_group.var): the identifier of the
\* feature at position k.
FeatureName(k) == "g" \o ToString(k)

\* A name no feature axis of the model holds.
AbsentName == "nonexistent_gene"

\* The feature axis of a dataset with n features, as an array.
FeatureAxis(n) == [k \in 1..n |-> FeatureName(k - 1)]

\* adata_group.X[r, c]: column 0 is [1, 3, ...], column 1 is [3, 5, ...].
XAt(r, c) == 1 + 2 * (r + c)

\* adata_group.var[var_names_col][k]: the display name of feature k.
VarNameAt(k) == "name_" \o ToString(k)

\* ------------------------------------------------------------ small helpers
Range(s) == {s[i] : i \in DOMAIN s}

SeqsUpTo(S, n) == UNION {[1..m -> S] : m \in 0..n}

RECURSIVE SumSeq(_)
SumSeq(s) == IF s = <<>> THEN 0 ELSE Head(s) + SumSeq(Tail(s))

\* ------------------------------------------------------- marker references
\* A reference is a tagged value: the JSON value handed to from_any.
IntRef(k) == [t |-> "int", k |-> k, s |-> "", hasName |-> FALSE,
              hasIndices |-> FALSE, name |-> "", indices |-> <<>>]
StrRef(s) == [t |-> "str", k |-> 0, s |-> s, hasName |-> FALSE,
              hasIndices |-> FALSE, name |-> "", indices |-> <<>>]
\* A value that is neither int, str nor dict (a float, a list, null).
OtherRef == [t |-> "other", k |-> 0, s |-> "", hasName |-> FALSE,
             hasIndices |-> FALSE, name |-> "", indices |-> <<>>]
DictRef(hasName, hasIndices, indices) ==
    [t |-> "dict", k |-> 0, s |-> "", hasName |-> hasName,
     hasIndices |-> hasIndices, name |-> IF hasName THEN "S" ELSE "",
     indices |-> IF hasIndices THEN indices ELSE <<>>]

\* The scalar references tried against a dataset of n features: every
\* position, one past each end of the axis, every name and an absent name.
ScalarRefs(n) ==
    {IntRef(k) : k \in (0 - n - 1)..n}
        \cup {StrRef(FeatureName(k)) : k \in 0..(n - 1)}
        \cup {StrRef(AbsentName), OtherRef}

AllRefs(n) ==
    ScalarRefs(n)
        \cup {DictRef(TRUE, TRUE, ix) : ix \in SeqsUpTo(ScalarRefs(n), MaxSetLen)}
        \cup {DictRef(FALSE, TRUE, <<IntRef(0)>>), DictRef(TRUE, FALSE, <<>>),
              DictRef(FALSE, FALSE, <<>>)}

NoMarker == [isSet |-> FALSE, ok |-> FALSE, index |-> <<>>, name |-> "",
             matrix_index |-> <<>>, agg |-> "none"]

\* -------------------------------------------------------------- adata_utils
\* get_index_in_array: np.where(array[:] == item)[0][0], the first position
\* holding item; any failure (no position) is raised as InvalidKey.
get_index_in_array(array, item) ==
    LET hits == {i \in DOMAIN array : array[i] = item}
    IN  IF hits = {}
        THEN [err |-> "InvalidKey", pos |-> 0]
        ELSE [err |-> "none",
              pos |-> (CHOOSE i \in hits : \A j \in hits : i <= j) - 1]

\* Integer indexing of the stored index array, array[k]: a negative k counts
\* from the end of the array (k + len), and a position outside the array is a
\* bounds error.
ArrayGetItem(array, k) ==
    LET n == Len(array)
        p == IF k < 0 THEN n + k ELSE k
    IN  IF p < 0 \/ p >= n
        THEN [err |-> "BoundsCheckError", val |-> ""]
        ELSE [err |-> "none", val |-> array[p + 1]]

\* ------------------------------------------------------------------ Marker
\* from_index with the InvalidKey of a failed name lookup left unconverted.
from_index_unconverted(n, ref, useNames) ==
    IF ref.t = "int"
    THEN LET got == ArrayGetItem(FeatureAxis(n), ref.k)
         IN  IF got.err # "none"
             THEN [err |-> "InvalidVar", index |-> "", matrix_index |-> 0,
                   name |-> ""]
             ELSE [err |-> "none", index |-> got.val, matrix_index |-> ref.k,
                   name |-> IF useNames
                            THEN VarNameAt(IF ref.k < 0 THEN n + ref.k ELSE ref.k)
                            ELSE got.val]
    ELSE IF ref.t = "str"
    THEN LET got == get_index_in_array(FeatureAxis(n), ref.s)
         IN  IF got.err = "InvalidKey"
             THEN [err |-> "InvalidKey", index |-> "", matrix_index |-> 0,
                   name |-> ""]
             ELSE [err |-> "none", index |-> ref.s, matrix_index |-> got.pos,
                   name |-> IF useNames THEN VarNameAt(got.pos) ELSE ref.s]
    ELSE [err |-> "InvalidVar", index |-> "", matrix_index |-> 0, name |-> ""]

\* Marker.from_index: the outcome [err, index, matrix_index, name].
from_index(n, ref, useNames) ==
    IF ref.t = "int"
    THEN LET got == ArrayGetItem(FeatureAxis(n), ref.k)
         IN  IF got.err # "none"
             THEN [err |-> "InvalidVar", index |-> "", matrix_index |-> 0,
                   name |-> ""]
             ELSE [err |-> "none", index |-> got.val, matrix_index |-> ref.k,
                   name |-> IF useNames
                            THEN VarNameAt(IF ref.k < 0 THEN n + ref.k ELSE ref.k)
                            ELSE got.val]
    ELSE IF ref.t = "str"
    THEN LET got == get_index_in_array(FeatureAxis(n), ref.s)
         IN  IF got.err = "InvalidKey"
             THEN [err |-> "InvalidVar", index |-> "", matrix_index |-> 0,
                   name |-> ""]
             ELSE [err |-> "none", index |-> ref.s, matrix_index |-> got.pos,
                   name |-> IF useNames THEN VarNameAt(got.pos) ELSE ref.s]
    ELSE [err |-> "InvalidVar", index |-> "", matrix_index |-> 0, name |-> ""]

\* Marker.from_varset: varset["name"] and varset["indices"] are plain
\* subscripts, then every member goes through from_index in order and the
\* first failure leaves the call.
from_varset(n, ref, useNames) ==
    IF ~ref.hasName \/ ~ref.hasIndices
    THEN [err |-> "KeyError", marker |-> NoMarker]
    ELSE LET ms == [i \in DOMAIN ref.indices |->
                        from_index(n, ref.indices[i], useNames)]
             bad == {i \in DOMAIN ms : ms[i].err # "none"}
         IN  IF bad # {}
             THEN [err |-> ms[CHOOSE i \in bad : \A j \in bad : i <= j].err,
                   marker |-> NoMarker]
             ELSE [err |-> "none",
                   marker |-> [isSet |-> TRUE, ok |-> TRUE,
                               index |-> [i \in DOMAIN ms |-> ms[i].index],
                               name |-> ref.name,
                               matrix_index |->
                                   [i \in DOMAIN ms |-> ms[i].matrix_index],
                               agg |-> "mean"]]

\* Marker.from_any: dispatch on the type of the reference.
from_any(n, ref, useNames) ==
    IF ref.t \in {"int", "str"}
    THEN LET m == from_index(n, ref, useNames)
         IN  IF m.err # "none"
             THEN [err |-> m.err, marker |-> NoMarker]
             ELSE [err |-> "none",
                   marker |-> [isSet |-> FALSE, ok |-> TRUE,
                               index |-> <<m.index>>, name |-> m.name,
                               matrix_index |-> <<m.matrix_index>>,
                               agg |-> "none"]]
    ELSE IF ref.t = "dict"
    THEN from_varset(n, ref, useNames)
    ELSE [err |-> "InvalidVar", marker |-> NoMarker]

\* Column c of X (c may be negative: it counts from the last column).
ColPos(n, c) == IF c < 0 THEN n + c ELSE c

\* adata_group.X[rows, c] for a list of row positions.
XRowsCol(n, rows, c) == [i \in DOMAIN rows |-> XAt(rows[i], ColPos(n, c))]

\* adata_group.X[:, c]
XCol(n, m, c) == [r \in 1..m |-> XAt(r - 1, ColPos(n, c))]

\* The default aggregation_func, np.mean(x, axis=0): the element-wise mean of
\* the stacked member columns, each entry the exact fraction num / den.
MeanAxis0(cols, m) ==
    [r \in 1..m |-> [num |-> SumSeq([i \in DOMAIN cols |-> cols[i][r]]),
                     den |-> Len(cols)]]

\* The `indices` argument of get_X_at: None, or a list of row positions.
NoneRows == [none |-> TRUE, rows |-> <<>>]
RowList(rows) == [none |-> FALSE, rows |-> rows]

\* get_X_at applying the aggregation function to the rows of a set.
get_X_at_aggregated(n, m, mk, arg) ==
    IF ~arg.none /\ Len(arg.rows) = 0
    THEN [result |-> <<>>, reads |-> 0, aggs |-> 0]
    ELSE IF mk.isSet
    THEN [result |-> MeanAxis0([i \in DOMAIN mk.matrix_index |->
                        IF arg.none THEN XCol(n, m, mk.matrix_index[i])
                        ELSE XRowsCol(n, arg.rows, mk.matrix_index[i])],
                     IF arg.none THEN m ELSE Len(arg.rows)),
          reads |-> Len(mk.matrix_index), aggs |-> 1]
    ELSE [result |-> IF arg.none THEN XCol(n, m, mk.matrix_index[1])
                     ELSE XRowsCol(n, arg.rows, mk.matrix_index[1]),
          reads |-> 1, aggs |-> 0]

\* get_X_at without the early return for an empty row list.
get_X_at_unguarded(n, m, mk, arg) ==
    IF mk.isSet
    THEN [result |-> IF ~arg.none /\ Len(arg.rows) = 0 THEN <<>>
                     ELSE [i \in DOMAIN mk.matrix_index |->
                            IF arg.none THEN XCol(n, m, mk.matrix_index[i])
                            ELSE XRowsCol(n, arg.rows, mk.matrix_index[i])],
          reads |-> Len(mk.matrix_index), aggs |-> 0]
    ELSE [result |-> IF arg.none THEN XCol(n, m, mk.matrix_index[1])
                     ELSE XRowsCol(n, arg.rows, mk.matrix_index[1]),
          reads |-> 1, aggs |-> 0]

\* Marker.get_X_at: [result, reads, aggs].
get_X_at(n, m, mk, arg) ==
    IF ~arg.none /\ Len(arg.rows) = 0
    THEN [result |-> <<>>, reads |-> 0, aggs |-> 0]
    ELSE IF mk.isSet
    THEN [result |-> [i \in DOMAIN mk.matrix_index |->
                        IF arg.none THEN XCol(n, m, mk.matrix_index[i])
                        ELSE XRowsCol(n, arg.rows, mk.matrix_index[i])],
          reads |-> Len(mk.matrix_index), aggs |-> 0]
    ELSE [result |-> IF arg.none THEN XCol(n, m, mk.matrix_index[1])
                     ELSE XRowsCol(n, arg.rows, mk.matrix_index[1]),
          reads |-> 1, aggs |-> 0]

\* Marker.X (property): [err, result, reads, aggs].
X(n, m, mk) ==
    IF mk.isSet
    THEN IF mk.agg = "none"
         THEN [err |-> "ValueError", result |-> <<>>, reads |-> 0, aggs |-> 0]
         ELSE [err |-> "none",
               \* the mean of no member at all is the scalar nan (0 / 0)
               result |-> IF Len(mk.matrix_index) = 0
                          THEN [num |-> 0, den |-> 0]
                          ELSE MeanAxis0([i \in DOMAIN mk.matrix_index |->
                                            XCol(n, m, mk.matrix_index[i])], m),
               reads |-> Len(mk.matrix_index), aggs |-> 1]
    ELSE [err |-> "none", result |-> XCol(n, m, mk.matrix_index[1]),
          reads |-> 1, aggs |-> 0]

\* ------------------------------------------------------- observation columns
\* A column is [kind, vals, na, cats, codes]:
\*   kind "float": vals are the values in halves (3 is 1.5), na marks NaN;
\*   kind "bool":  vals are 0 (False) / 1 (True), na marks a missing entry;
\*   kind "cat":   cats are the category labels in declaration order and
\*                 codes the per-row codes, -1 for a missing entry.
NaNCell == 0 - 1

FloatCol(cells) ==
    [kind |-> "float",
     vals |-> [i \in DOMAIN cells |-> IF cells[i] = NaNCell THEN 0 ELSE cells[i]],
     na |-> [i \in DOMAIN cells |-> cells[i] = NaNCell],
     cats |-> <<>>, codes |-> <<>>]

BoolCol(cells) ==
    [kind |-> "bool", vals |-> cells, na |-> [i \in DOMAIN cells |-> FALSE],
     cats |-> <<>>, codes |-> <<>>]

CatCol(cats, codes) ==
    [kind |-> "cat", vals |-> <<>>, na |-> <<>>, cats |-> cats, codes |-> codes]

NoCol == CatCol(<<>>, <<>>)

\* str() of a float given in halves, and of a bool.
StrFloat(h) == ToString(h \div 2) \o (IF h % 2 = 0 THEN ".0" ELSE ".5")
StrBool(b) == IF b = 1 THEN "True" ELSE "False"

RECURSIVE SortSet(_)
SortSet(S) ==
    IF S = {} THEN <<>>
    ELSE LET m == CHOOSE x \in S : \A y \in S : x <= y
         IN  <<m>> \o SortSet(S \ {m})

IndexOf(seq, x) == CHOOSE i \in DOMAIN seq : seq[i] = x

\* A categorical Series is [cats, codes]. Category values are kept as the
\* labels str() gives them: to_categorical renames every category with str()
\* before returning and type_category does the same, and no float or bool
\* label can equal "undefined", so rendering early changes no outcome.
hasnans(s) == \E i \in DOMAIN s.codes : s.codes[i] = 0 - 1

\* pd.Series(array).astype("category"): the categories are the sorted
\* distinct non-missing values; a categorical keeps its categories.
astype_category(col) ==
    IF col.kind = "cat"
    THEN [cats |-> col.cats, codes |-> col.codes]
    ELSE LET present == {col.vals[i] : i \in {j \in DOMAIN col.vals : ~col.na[j]}}
             sorted == SortSet(present)
         IN  [cats |-> [i \in DOMAIN sorted |->
                          IF col.kind = "bool" THEN StrBool(sorted[i])
                          ELSE StrFloat(sorted[i])],
              codes |-> [i \in DOMAIN col.vals |->
                          IF col.na[i] THEN 0 - 1
                          ELSE IndexOf(sorted, col.vals[i]) - 1]]

\* parse_group (encoding-type "categorical") and parse_array (with a
\* "categories" attribute): Categorical.from_codes, and a categorical whose
\* categories are exactly "True" and "False" is mapped to a bool array.
\* astype(bool) has no missing value: a missing entry (NaN) becomes True.
parse_categorical(col) ==
    IF Len(col.cats) = 2 /\ {col.cats[1], col.cats[2]} = {"True", "False"}
    THEN [kind |-> "bool",
          vals |-> [i \in DOMAIN col.codes |->
                      IF col.codes[i] = 0 - 1 THEN 1
                      ELSE IF col.cats[col.codes[i] + 1] = "True" THEN 1 ELSE 0],
          na |-> [i \in DOMAIN col.codes |-> FALSE],
          cats |-> <<>>, codes |-> <<>>]
    ELSE col

\* parse_data: a group goes to parse_group, an array to parse_array; a plain
\* array is returned as it is.
parse_data(col) ==
    IF col.kind = "cat" THEN parse_categorical(col) ELSE col

\* The while loop of get_undefined_category_name: the first i >= start with
\* "undefined_i" not a category.
RECURSIVE undefined_suffix(_, _)
undefined_suffix(cats, i) ==
    IF ("undefined_" \o ToString(i)) \in Range(cats)
    THEN undefined_suffix(cats, i + 1)
    ELSE i

\* get_undefined_category_name probing undefined_1 only.
get_undefined_category_name_once(cats) ==
    IF "undefined" \notin Range(cats) THEN "undefined" ELSE "undefined_1"

get_undefined_category_name(cats) ==
    IF "undefined" \notin Range(cats)
    THEN "undefined"
    ELSE "undefined_" \o ToString(undefined_suffix(cats, 1))

\* fillna_as_undefined: [obs, undefined_cat, added]; added = FALSE stands for
\* the None returned when the series has no missing value.
fillna_as_undefined(s) ==
    IF hasnans(s)
    THEN LET u == get_undefined_category_name(s.cats)
         IN  [obs |-> [cats |-> Append(s.cats, u),
                       codes |-> [i \in DOMAIN s.codes |->
                                    IF s.codes[i] = 0 - 1 THEN Len(s.cats)
                                    ELSE s.codes[i]]],
              undefined_cat |-> u, added |-> TRUE]
    ELSE [obs |-> s, undefined_cat |-> "", added |-> FALSE]

\* The number of rows of s in each category (Series.value_counts of a
\* categorical: every category, unused ones with 0; missing rows not counted).
value_counts(s) ==
    [l \in Range(s.cats) |->
        Cardinality({i \in DOMAIN s.codes :
                        s.codes[i] # 0 - 1 /\ s.cats[s.codes[i] + 1] = l})]

\* type_category counting the rows before the missing values are filled.
type_category_unfilled(s) ==
    LET f == fillna_as_undefined(s)
        categories == f.obs.cats
    IN  [type |-> "categorical",
         values |-> categories,
         n_values |-> Len(categories),
         codes |-> [l \in Range(categories) |->
                      IF f.added /\ l = f.undefined_cat THEN 0 - 1
                      ELSE IndexOf(categories, l) - 1],
         hasnans |-> hasnans(f.obs),
         value_counts |-> value_counts(s)]

\* type_category: the metadata of a categorical series.
type_category(s) ==
    LET f == fillna_as_undefined(s)
        categories == f.obs.cats
    IN  [type |-> "categorical",
         values |-> categories,
         n_values |-> Len(categories),
         codes |-> [l \in Range(categories) |->
                      IF f.added /\ l = f.undefined_cat THEN 0 - 1
                      ELSE IndexOf(categories, l) - 1],
         hasnans |-> hasnans(f.obs),
         value_counts |-> value_counts(f.obs)]

\* type_bool / type_discrete: astype("category"), type_category, retagged.
type_bool(col) == [type_category(astype_category(col)) EXCEPT !.type = "boolean"]
type_discrete(col) == [type_category(astype_category(col)) EXCEPT !.type = "discrete"]

\* pd.cut(x, edges, include_lowest=True, labels=False) of one value, for
\* increasing edges: the 0-based number of the interval (e[i], e[i+1]] holding
\* x, the lowest edge counted in the first interval; -1 (NaN) outside.
CutEdges(x, edges) ==
    LET k == Len(edges)
        ids == IF x = edges[1] THEN 1
               ELSE Cardinality({i \in 1..k : edges[i] < x})
    IN  IF ids = 0 \/ ids = k THEN 0 - 1 ELSE ids - 1

\* pd.cut(x, n, include_lowest=True, labels=False) of one value: n equal-width
\* intervals over [mn, mx], right-closed, mn counted in the first (edges taken
\* exactly, as fractions).
CutNBins(x, mn, mx, n) ==
    IF x = mn THEN 0
    ELSE (((x - mn) * n + (mx - mn) - 1) \div (mx - mn)) - 1

SeqMin(s) == CHOOSE x \in Range(s) : \A y \in Range(s) : x <= y
SeqMax(s) == CHOOSE x \in Range(s) : \A y \in Range(s) : x >= y

\* .astype("Int64").astype("category") of the bin numbers cut returned: the
\* categories are the sorted bin numbers that occur.
bins_as_category(binOf) ==
    LET sorted == SortSet(Range(binOf) \ {0 - 1})
    IN  [cats |-> [i \in DOMAIN sorted |-> ToString(sorted[i])],
         codes |-> [i \in DOMAIN binOf |->
                      IF binOf[i] = 0 - 1 THEN 0 - 1
                      ELSE IndexOf(sorted, binOf[i]) - 1]]

\* The outcome of a *2categorical function: [err, cat, binned, bins]; binned
\* = FALSE stands for the None returned as second value, err for the
\* exception that left the call ("none" when it returned).
PassThrough(s, fillna) ==
    [err |-> "none", cat |-> IF fillna THEN fillna_as_undefined(s).obs ELSE s,
     binned |-> FALSE, bins |-> 0]

Binned(s_cut, fillna) ==
    LET s_cat == IF fillna THEN fillna_as_undefined(s_cut).obs ELSE s_cut
    IN  [err |-> "none", cat |-> s_cat, binned |-> TRUE,
         bins |-> Len(s_cat.cats)]

\* The call was left on the binning branch by an exception.
BinningRaised(kind) ==
    [err |-> kind, cat |-> [cats |-> <<>>, codes |-> <<>>], binned |-> TRUE,
     bins |-> 0]

\* continuous2categorical; `thresholds or nBins`: an absent or empty
\* thresholds list means nBins equal-width bins.
continuous2categorical(col, thresholds, nBins, fillna) ==
    LET s == astype_category(col)
    IN  IF nBins >= Len(s.cats)
        THEN PassThrough(s, fillna)
        ELSE LET present == [i \in {j \in DOMAIN col.vals : ~col.na[j]} |->
                                col.vals[i]]
                 mn == SeqMin(present)
                 mx == SeqMax(present)
                 binOf == [i \in DOMAIN col.vals |->
                             IF col.na[i] THEN 0 - 1
                             ELSE IF thresholds # <<>>
                             THEN CutEdges(col.vals[i], thresholds)
                             ELSE CutNBins(col.vals[i], mn, mx, nBins)]
             IN  Binned(bins_as_category(binOf), fillna)

\* discrete2categorical passing through only when nBins > the number of
\* distinct values.
discrete2categorical_strict(col, nBins, fillna) ==
    LET s == astype_category(col)
    IN  IF nBins > Len(s.cats)
        THEN PassThrough(s, fillna)
        ELSE BinningRaised("TypeError")

\* discrete2categorical: on the binning branch the cut is over s.index, an
\* Index and not a Series, so pd.cut(..., labels=False) returns a numpy
\* array of bin numbers, and a numpy array has no "category" dtype to be
\* cast to: the chained astype raises TypeError.
discrete2categorical(col, nBins, fillna) ==
    LET s == astype_category(col)
    IN  IF nBins >= Len(s.cats)
        THEN PassThrough(s, fillna)
        ELSE BinningRaised("TypeError")

bool2categorical(col, fillna) == PassThrough(astype_category(col), fillna)

\* categorical: with fillna=False the argument is returned as it is.
categorical(col, fillna) == PassThrough(astype_category(col), fillna)

\* A to_categorical request: the type and the keyword arguments.
Request(type, thresholds, nBins, fillna) ==
    [type |-> type, thresholds |-> thresholds, nBins |-> nBins, fillna |-> fillna]

\* to_categorical: dispatch on type; rename_categories(str) leaves the labels
\* as they are (see above).
to_categorical(col, req) ==
    IF req.type = "continuous"
    THEN continuous2categorical(col, req.thresholds, req.nBins, req.fillna)
    ELSE IF req.type = "discrete"
    THEN discrete2categorical(col, req.nBins, req.fillna)
    ELSE IF req.type = "boolean"
    THEN bool2categorical(col, req.fillna)
    ELSE categorical(col, req.fillna)

\* ---------------------------------------------------------- column inputs
\* The category labels stored categoricals are drawn from.
Labels == {"True", "False", "undefined", "undefined_1"}

DistinctSeqs(S, n) ==
    {q \in SeqsUpTo(S, n) : \A i, j \in DOMAIN q : i # j => q[i] # q[j]}

\* Stored categorical groups: distinct categories in any declaration order,
\* any codes, missing (-1) included.
IsStoredCategorical(col) ==
    \E c \in DistinctSeqs(Labels, MaxCats) :
        \E k \in SeqsUpTo((0 - 1)..(Len(c) - 1), MaxLen) : col = CatCol(c, k)

\* Stored float arrays (values in halves): short columns over 0.5, 1.5, 10.0
\* and NaN; the column [0.5, 1.5, 2.5, 10]; and columns with more than
\* DefaultNBins distinct values, with and without a trailing NaN.
SmallCells == {NaNCell, 1, 3, 20}
ExampleCells == <<1, 3, 5, 20>>
WideValues == {0, 1, 2, 3, 5, 6, 20}

WideCells ==
    LET subsets == {S \in SUBSET WideValues : Cardinality(S) > DefaultNBins}
    IN  {SortSet(S) : S \in subsets}
            \cup {Append(SortSet(S), NaNCell) : S \in subsets}

StoredFloats ==
    {FloatCol(c) : c \in SeqsUpTo(SmallCells, MaxLen) \cup {ExampleCells}
                            \cup WideCells}

StoredBools == {BoolCol(c) : c \in SeqsUpTo({0, 1}, MaxLen)}

IsStoredColumn(col) ==
    \/ IsStoredCategorical(col)
    \/ col \in StoredFloats
    \/ col \in StoredBools

\* Explicit thresholds (in halves): [0, 1, 2, 3], [1, 3] and [0.5, 10].
ThresholdChoices == {<<0, 2, 4, 6>>, <<2, 6>>, <<1, 20>>}

NBinsChoices == (1..MaxNBins) \cup {DefaultNBins}

\* The to_categorical requests made on a decoded column: the type the caller
\* names is the column's own.
RequestsFor(col) ==
    IF col.kind = "float"
    THEN {Request("continuous", th, nb, f) :
              th \in ThresholdChoices \cup {<<>>}, nb \in NBinsChoices,
              f \in BOOLEAN}
         \cup {Request("discrete", <<>>, nb, f) : nb \in NBinsChoices, f \in BOOLEAN}
    ELSE IF col.kind = "bool"
    THEN {Request("boolean", <<>>, DefaultNBins, f) : f \in BOOLEAN}
    ELSE {Request("categorical", <<>>, DefaultNBins, f) : f \in BOOLEAN}

NoReq == Request("none", <<>>, 0, FALSE)
NoRes == [err |-> "none", cat |-> [cats |-> <<>>, codes |-> <<>>],
          binned |-> FALSE, bins |-> 0]
NoMeta == [type |-> "none", values |-> <<>>, n_values |-> 0, codes |-> <<>>,
           hasnans |-> FALSE, value_counts |-> <<>>]

NoNum == [min |-> 0, max |-> 0, mean |-> [num |-> 0, den |-> 1],
          median |-> [num |-> 0, den |-> 1], n_unique |-> 0]
NoHist == [err |-> "none", cats |-> <<>>, lo |-> 0, hi |-> 0, hists |-> <<>>,
           rows |-> NoneRows]

\* ---------------------------------------------------------- column actions
ColumnsOff ==
    /\ stored = NoCol
    /\ cpc = "off"
    /\ decoded = NoCol
    /\ colOp = "none"
    /\ creq = NoReq
    /\ cres = NoRes
    /\ cmeta = NoMeta
    /\ cnum = NoNum
    /\ chist = NoHist

MarkersOff ==
    /\ nVars = 0
    /\ nObs = 0
    /\ mpc = "off"
    /\ mref = OtherRef
    /\ marker = NoMarker
    /\ raised = "none"
    /\ lastOp = "none"
    /\ rowsArg = NoneRows
    /\ result = <<>>
    /\ xReads = 0
    /\ aggCalls = 0

ResampleOff ==
    /\ rng = 0
    /\ rpc = "off"
    /\ rdata = <<>>
    /\ rn = 0
    /\ rar = <<>>
    /\ rout = <<>>
    /\ rerr = "none"

\* What a handler returned or raised: the rows handed to the aggregation
\* (values) and the group label of each of them (labels).
NoOut == [status |-> "none", code |-> 0, values |-> <<>>, labels |-> <<>>]

NoRequest == [entry |-> "none", urlOk |-> FALSE, rows |-> NoneRows,
              colPresent |-> FALSE, hasObsValues |-> FALSE, scale |-> "",
              mode |-> "", format |-> "", varKey |-> IntRef(0),
              mask |-> "present"]

RequestsOff ==
    /\ qpc = "off"
    /\ qreq = NoRequest
    /\ qout = NoOut
    /\ handles = 0

NoFetch == [entry |-> "none", configured |-> FALSE, keysOk |-> FALSE, urlOk |-> FALSE]
NoRemote == [transport |-> FALSE, status |-> 0, body |-> "none"]
NoFetched == [kind |-> "none"]
NoFetchOut == [status |-> "none", cause |-> "none"]

FetchOff ==
    /\ fpc = "off"
    /\ freq = NoFetch
    /\ fremote = NoRemote
    /\ fres = NoFetched
    /\ fout = NoFetchOut

NoStream == [urlOk |-> FALSE, cols |-> <<>>]

StreamOff ==
    /\ spc = "off"
    /\ sreq = NoStream
    /\ sidx = 0
    /\ semitted = <<>>
    /\ sfailed = <<>>
    /\ slog = <<>>
    /\ scache = {}
    /\ sraised = "none"

NoKeyed == [method |-> "", path |-> "", body |-> [kind |-> "absent", items |-> <<>>],
            args |-> "", now |-> 0,
            key |-> [method |-> "", path |-> "", body |-> [kind |-> "obj", items |-> <<>>]]]

KeysOff ==
    /\ kpc = "off"
    /\ kfirst = NoKeyed
    /\ ksecond = NoKeyed

ThreadsOff ==
    /\ tpc = <<>>
    /\ tdata = <<>>
    /\ tn = <<>>
    /\ tar = <<>>
    /\ tout = <<>>

NoCacheOp == [op |-> "none", key |-> "", value |-> "", up |-> FALSE]
NoCacheRet == [raised |-> "none", value |-> "none"]

BackendOff ==
    /\ bup = FALSE
    /\ bstore = {}
    /\ bop = NoCacheOp
    /\ bret = NoCacheRet

OthersOff == KeysOff /\ ThreadsOff /\ BackendOff

HttpOff == RequestsOff /\ FetchOff /\ StreamOff /\ OthersOff

ColumnInit ==
    /\ IsStoredColumn(stored)
    /\ cpc = "stored"
    /\ decoded = NoCol
    /\ colOp = "none"
    /\ creq = NoReq
    /\ cres = NoRes
    /\ cmeta = NoMeta
    /\ cnum = NoNum
    /\ chist = NoHist
    /\ MarkersOff
    /\ ResampleOff
    /\ HttpOff

\* The column is read from the store and decoded.
ParseData ==
    /\ cpc = "stored"
    /\ decoded' = parse_data(stored)
    /\ cpc' = "parsed"
    /\ colOp' = "parse_data"
    /\ UNCHANGED <<stored, creq, cres, cmeta, cnum, chist, mvars, rvars, xvars>>

\* An entry point turns the decoded column into a grouping axis.
ToCategorical ==
    /\ cpc = "parsed"
    /\ \E req \in RequestsFor(decoded) :
        /\ creq' = req
        /\ cres' = to_categorical(decoded, req)
    /\ colOp' = "to_categorical"
    /\ cpc' = "done"
    /\ UNCHANGED <<stored, decoded, cmeta, cnum, chist, mvars, rvars, xvars>>

\* The metadata of a categorical column.
TypeCategory ==
    /\ cpc = "parsed"
    /\ decoded.kind = "cat"
    /\ cmeta' = type_category(astype_category(decoded))
    /\ colOp' = "type_category"
    /\ cpc' = "done"
    /\ UNCHANGED <<stored, decoded, creq, cres, cnum, chist, mvars, rvars, xvars>>

\* The metadata of a boolean column.
TypeBool ==
    /\ cpc = "parsed"
    /\ decoded.kind = "bool"
    /\ cmeta' = type_bool(decoded)
    /\ colOp' = "type_bool"
    /\ cpc' = "done"
    /\ UNCHANGED <<stored, decoded, creq, cres, cnum, chist, mvars, rvars, xvars>>

\* The metadata of a discrete column.
TypeDiscrete ==
    /\ cpc = "parsed"
    /\ decoded.kind = "float"
    /\ cmeta' = type_discrete(decoded)
    /\ colOp' = "type_discrete"
    /\ cpc' = "done"
    /\ UNCHANGED <<stored, decoded, creq, cres, cnum, chist, mvars, rvars, xvars>>

\* The rows of a numeric column that hold a value.
PresentRows(col) == {i \in DOMAIN col.vals : ~col.na[i]}

\* The k-th smallest of the values at the rows idx (k from 1).
OrderStat(col, idx, k) ==
    LET atMost(v) == Cardinality({i \in idx : col.vals[i] <= v})
        cands == {col.vals[i] : i \in idx}
    IN  CHOOSE v \in cands :
            /\ atMost(v) >= k
            /\ \A w \in cands : atMost(w) >= k => v <= w

RECURSIVE SumAt(_, _)
SumAt(col, idx) ==
    IF idx = {} THEN 0
    ELSE LET i == CHOOSE j \in idx : TRUE
         IN  col.vals[i] + SumAt(col, idx \ {i})

\* ndarray_min, ndarray_max: 0 when every value is missing (an empty column
\* included), the nanmin / nanmax otherwise.
ndarray_min(col) ==
    IF PresentRows(col) = {} THEN 0
    ELSE OrderStat(col, PresentRows(col), 1)

ndarray_max(col) ==
    IF PresentRows(col) = {} THEN 0
    ELSE OrderStat(col, PresentRows(col), Cardinality(PresentRows(col)))

\* The mean with the missing values counted as zeros.
ndarray_mean_all(col) ==
    IF PresentRows(col) = {} THEN [num |-> 0, den |-> 1]
    ELSE [num |-> SumAt(col, PresentRows(col)), den |-> Len(col.vals)]

\* ndarray_mean: 0 when every value is missing, the nanmean otherwise, kept
\* as the fraction num / den.
ndarray_mean(col) ==
    IF PresentRows(col) = {} THEN [num |-> 0, den |-> 1]
    ELSE [num |-> SumAt(col, PresentRows(col)),
          den |-> Cardinality(PresentRows(col))]

\* ndarray_median: 0 when every value is missing, the nanmedian otherwise:
\* the middle value, or the mean of the two middle values.
ndarray_median(col) ==
    LET idx == PresentRows(col)
        n == Cardinality(idx)
    IN  IF n = 0 THEN [num |-> 0, den |-> 1]
        ELSE IF n % 2 = 1
        THEN [num |-> OrderStat(col, idx, (n + 1) \div 2), den |-> 1]
        ELSE [num |-> OrderStat(col, idx, n \div 2)
                        + OrderStat(col, idx, n \div 2 + 1),
              den |-> 2]

\* type_numeric; n_unique is np.unique(obs).size, in which the missing
\* values count as one value.
type_numeric(col) ==
    [min |-> ndarray_min(col), max |-> ndarray_max(col),
     mean |-> ndarray_mean(col), median |-> ndarray_median(col),
     n_unique |-> Cardinality({col.vals[i] : i \in PresentRows(col)})
                    + (IF \E i \in DOMAIN col.na : col.na[i] THEN 1 ELSE 0)]

\* The metadata of a continuous column.
TypeNumeric ==
    /\ cpc = "parsed"
    /\ decoded.kind = "float"
    /\ cnum' = type_numeric(decoded)
    /\ colOp' = "type_numeric"
    /\ cpc' = "done"
    /\ UNCHANGED <<stored, decoded, creq, cres, cmeta, chist, mvars, rvars, xvars>>

\* np.histogram's default number of bins.
HistBins == 10

\* The bin (from 1) np.histogram(a, range=[lo, hi]) counts v in: equal-width
\* bins over [lo, hi], the last one closed on the right.
BinOf(v, lo, hi) ==
    IF v = hi THEN HistBins ELSE ((v - lo) * HistBins) \div (hi - lo) + 1

\* histogram(a, [lo, hi]): the counts per bin.
histogram(a, lo, hi) ==
    [b \in 1..HistBins |->
        Cardinality({j \in DOMAIN a : BinOf(a[j], lo, hi) = b})]

\* The obsIndices of a histogram request on a column of m rows: absent, empty,
\* the first row, or the last row followed by the first.
HistRows(m) ==
    {NoneRows, RowList(<<>>)}
        \cup (IF m >= 1 THEN {RowList(<<0>>)} ELSE {})
        \cup (IF m >= 2 THEN {RowList(<<m - 1, 0>>)} ELSE {})

\* The row positions a request selects, in the order of the selection.
SelectedRows(m, arg) == IF arg.none THEN [r \in 1..m |-> r - 1] ELSE arg.rows

\* get_obs_col_histograms from the categorical onwards, for the marker of
\* feature 0: res is what to_categorical returned or raised, arg the
\* obsIndices.
obs_col_histograms(res, arg) ==
    IF res.err # "none"
    THEN [NoHist EXCEPT !.err = res.err, !.rows = arg]
    ELSE LET m == Len(res.cat.codes)
             sel == SelectedRows(m, arg)
             codes == [j \in DOMAIN sel |-> res.cat.codes[sel[j] + 1]]
             mk == from_any(MaxVars, IntRef(0), FALSE).marker
             xs == get_X_at(MaxVars, m, mk, arg).result
             min_X == IF Len(xs) = 0 THEN 0 ELSE SeqMin(xs)
             top == IF Len(xs) = 0 THEN 1 ELSE SeqMax(xs)
             max_X == IF min_X = top THEN top + 1 ELSE top
             at(k) == {j \in DOMAIN codes : codes[j] = k - 1}
             X_of(k) == LET idx == SortSet(at(k))
                        IN  [i \in DOMAIN idx |-> xs[idx[i]]]
         IN  [err |-> "none", cats |-> res.cat.cats, lo |-> min_X,
              hi |-> max_X,
              hists |-> [k \in DOMAIN res.cat.cats |->
                            histogram(X_of(k), min_X, max_X)],
              rows |-> arg]

\* The histograms of a marker over the categories of the column.
ObsColHistograms ==
    /\ cpc = "done"
    /\ colOp = "to_categorical"
    /\ \E arg \in HistRows(IF cres.err = "none" THEN Len(cres.cat.codes) ELSE 0) :
          chist' = obs_col_histograms(cres, arg)
    /\ colOp' = "get_obs_col_histograms"
    /\ UNCHANGED <<stored, cpc, decoded, creq, cres, cmeta, cnum, mvars, rvars, xvars>>

ColumnNext ==
    \/ ParseData
    \/ ToCategorical
    \/ TypeCategory
    \/ TypeBool
    \/ TypeDiscrete
    \/ TypeNumeric
    \/ ObsColHistograms

ColumnSpec == ColumnInit /\ [][ColumnNext]_vars

\* ---------------------------------------------------------------- resample
\* The process-wide generator behind np.random: seeding fixes its state, and
\* every draw advances the state and is a function of the new state alone.
\* The generator is a full-period congruential one over 16 states.
RngSeed(n) == n % 16
RngNext(s) == (5 * s + 3) % 16

\* The states the generator goes through in k draws from state s.
RECURSIVE RngStates(_, _)
RngStates(s, k) ==
    IF k = 0 THEN <<>>
    ELSE IF k = 1 THEN <<RngNext(s)>>
    ELSE LET h == k \div 2
             first == RngStates(s, h)
         IN  first \o RngStates(first[h], k - h)

\* np.unique(data, return_inverse=True): unq, the sorted distinct values, and
\* ids, the 0-based position in unq of every element of data.
Unique(data) == SortSet(Range(data))
Inverse(data) == [i \in DOMAIN data |-> IndexOf(Unique(data), data[i]) - 1]

\* np.random.choice(ids, size=k, replace=True) from generator state s.
UniformChoice(s, ids, k) ==
    LET st == RngStates(s, k)
    IN  [j \in 1..k |-> ids[1 + (st[j] % Len(ids))]]

\* np.bincount(all_ids): the number of occurrences of 0 .. max(all_ids).
Bincount(all_ids) ==
    [b \in 1..(SeqMax(all_ids) + 1) |->
        Cardinality({j \in DOMAIN all_ids : all_ids[j] = b - 1})]

\* np.random.choice(a=unq, size=k, p=counts / total) from generator state s:
\* each draw takes the first value whose cumulated share exceeds the uniform
\* number state / 16.
WeightedChoice(s, unq, counts, total, k) ==
    LET st == RngStates(s, k)
        cum(b) == SumSeq(SubSeq(counts, 1, b))
    IN  [j \in 1..k |->
            unq[CHOOSE b \in DOMAIN counts :
                    /\ cum(b) * 16 > st[j] * total
                    /\ \A c \in 1..(b - 1) : cum(c) * 16 <= st[j] * total]]

\* The values the vectors handed to resample are made of.
SampleValues == {1, 3, 5}

ResampleInit ==
    /\ rng \in {0, 7}
    /\ rpc = "start"
    /\ rdata \in SeqsUpTo(SampleValues, MaxVecLen)
    /\ rn \in 0..MaxSamples
    /\ rar = <<>>
    /\ rout = <<>>
    /\ rerr = "none"
    /\ MarkersOff
    /\ ColumnsOff
    /\ HttpOff

\* The list resample starts from, with the two extremes swapped.
initial_resamples_swapped(data) == <<SeqMax(data), SeqMin(data)>>

\* resamples = [data.min(), data.max()]
initial_resamples(data) == <<SeqMin(data), SeqMax(data)>>

\* np.random.seed(nsamples); NDRAWS; resamples = [data.min(), data.max()]:
\* min of an empty vector raises ValueError.
ResampleSeed ==
    /\ rpc = "start"
    /\ rng' = RngSeed(rn)
    /\ IF rdata = <<>>
       THEN /\ rpc' = "failed"
            /\ rerr' = "ValueError"
            /\ rout' = rout
       ELSE /\ rpc' = "seeded"
            /\ rerr' = rerr
            /\ rout' = initial_resamples(rdata)
    /\ UNCHANGED <<rdata, rn, rar, mvars, cvars, xvars>>

\* unq, ids = np.unique(...); all_ids = np.random.choice(ids, NDRAWS);
\* ar = np.bincount(all_ids) / NDRAWS (kept as the counts over NDRAWS).
ResampleDrawIds ==
    /\ rpc = "seeded"
    /\ LET NDRAWS == Len(rdata) * DrawsPerItem
           all_ids == UniformChoice(rng, Inverse(rdata), NDRAWS)
       IN  /\ rar' = Bincount(all_ids)
           /\ rng' = RngStates(rng, NDRAWS)[NDRAWS]
    /\ rpc' = "drawn"
    /\ UNCHANGED <<rdata, rn, rout, rerr, mvars, cvars, xvars>>

\* resamples.extend(np.random.choice(a=unq, size=nsamples, p=ar)): choice
\* raises ValueError when a and p differ in length.
ResampleExtend ==
    /\ rpc = "drawn"
    /\ IF Len(rar) # Len(Unique(rdata))
       THEN /\ rpc' = "failed"
            /\ rerr' = "ValueError"
            /\ UNCHANGED <<rout, rng>>
       ELSE /\ rpc' = "done"
            /\ rerr' = rerr
            /\ rout' = rout \o WeightedChoice(rng, Unique(rdata), rar,
                                              Len(rdata) * DrawsPerItem, rn)
            /\ rng' = IF rn = 0 THEN rng ELSE RngStates(rng, rn)[rn]
    /\ UNCHANGED <<rdata, rn, rar, mvars, cvars, xvars>>

ResampleNext == ResampleSeed \/ ResampleDrawIds \/ ResampleExtend

ResampleSpec == ResampleInit /\ [][ResampleNext]_vars

\* ---------------------------------------------------------- marker actions
MarkerInit ==
    /\ nVars \in 1..MaxVars
    /\ nObs \in 1..MaxObs
    /\ mpc = "start"
    /\ mref = OtherRef
    /\ marker = NoMarker
    /\ raised = "none"
    /\ lastOp = "none"
    /\ rowsArg = NoneRows
    /\ result = <<>>
    /\ xReads = 0
    /\ aggCalls = 0
    /\ ColumnsOff
    /\ ResampleOff
    /\ HttpOff

\* A request resolves its marker reference.
FromAny ==
    /\ mpc = "start"
    /\ \E ref \in AllRefs(nVars), useNames \in BOOLEAN :
        LET r == from_any(nVars, ref, useNames)
        IN  /\ mref' = ref
            /\ marker' = r.marker
            /\ raised' = r.err
            /\ mpc' = IF r.err = "none" THEN "resolved" ELSE "failed"
    /\ lastOp' = "from_any"
    /\ UNCHANGED <<nVars, nObs, rowsArg, result, xReads, aggCalls, cvars, rvars, xvars>>

\* The request reads the marker's data at an optional list of rows.
GetXAt ==
    /\ mpc = "resolved"
    /\ \E arg \in {NoneRows} \cup
                  {RowList(rs) : rs \in SeqsUpTo(0..(nObs - 1), MaxObs)} :
        LET r == get_X_at(nVars, nObs, marker, arg)
        IN  /\ rowsArg' = arg
            /\ result' = r.result
            /\ xReads' = r.reads
            /\ aggCalls' = r.aggs
    /\ raised' = "none"
    /\ lastOp' = "get_X_at"
    /\ UNCHANGED <<nVars, nObs, mpc, mref, marker, cvars, rvars, xvars>>

\* The request reads the marker's whole (aggregated) column.
XProperty ==
    /\ mpc = "resolved"
    /\ LET r == X(nVars, nObs, marker)
       IN  /\ result' = r.result
           /\ raised' = r.err
           /\ xReads' = r.reads
           /\ aggCalls' = r.aggs
    /\ rowsArg' = NoneRows
    /\ lastOp' = "X"
    /\ UNCHANGED <<nVars, nObs, mpc, mref, marker, cvars, rvars, xvars>>

MarkerNext == FromAny \/ GetXAt \/ XProperty

MarkerSpec == MarkerInit /\ [][MarkerNext]_vars

\* ------------------------------------------------------------------ errors
\* The default status_code of each error class (resources/errors.py); an
\* exception that is none of them carries no status of its own.
status_code(kind) ==
    CASE kind = "InternalServerError" -> 500
      [] kind = "ReadZarrError" -> 400
      [] kind = "InvalidKey" -> 400
      [] kind = "InvalidObs" -> 400
      [] kind = "InvalidVar" -> 400
      [] kind = "BadRequest" -> 400
      [] kind = "FetchError" -> 500
      [] kind = "NotInData" -> 404
      [] OTHER -> 0

\* ------------------------------------------------------ claims on Marker
IsSetRef(ref) == ref.t = "dict" /\ ref.hasName /\ ref.hasIndices

\* The data a call on a resolved set marker must return when it hands back
\* one unaggregated vector per member, restricted to the rows asked for.
PerMemberRows ==
    [i \in DOMAIN marker.matrix_index |->
        IF rowsArg.none
        THEN [r \in 1..nObs |-> XAt(r - 1, ColPos(nVars, marker.matrix_index[i]))]
        ELSE [p \in DOMAIN rowsArg.rows |->
                XAt(rowsArg.rows[p], ColPos(nVars, marker.matrix_index[i]))]]

SingleColumnRows ==
    IF rowsArg.none
    THEN [r \in 1..nObs |-> XAt(r - 1, ColPos(nVars, marker.matrix_index[1]))]
    ELSE [p \in DOMAIN rowsArg.rows |->
            XAt(rowsArg.rows[p], ColPos(nVars, marker.matrix_index[1]))]

\* Marker.X of a set with at least one member is the element-wise mean of the
\* member columns, computed by one call of the aggregation function.
SetXIsMean ==
    (mpc = "resolved" /\ marker.isSet /\ lastOp = "X"
        /\ Len(marker.matrix_index) > 0) =>
        /\ raised = "none"
        /\ aggCalls = 1
        /\ Len(result) = nObs
        /\ \A r \in 1..nObs :
            result[r].num =
                SumSeq([i \in DOMAIN marker.matrix_index |->
                    XAt(r - 1, ColPos(nVars, marker.matrix_index[i]))])
        /\ \A r \in 1..nObs : result[r].den = Len(marker.matrix_index)
        \* the spec's example: columns [1,3] and [3,5] average to [2,4]
        /\ (marker.matrix_index = <<0, 1>> /\ nObs = 2) =>
              /\ result[1].num = 2 * result[1].den
              /\ result[2].num = 4 * result[2].den

\* A non-set marker: X and get_X_at return the single column, unaggregated.
ScalarUnaggregated ==
    (mpc = "resolved" /\ ~marker.isSet /\ lastOp \in {"X", "get_X_at"}) =>
        /\ aggCalls = 0
        /\ raised = "none"
        /\ result = SingleColumnRows

\* C3 as stated: for a set marker, X is the element-wise mean of the member
\* columns, while get_X_at(rows), for every rows argument, never aggregates and
\* returns one unaggregated vector per member restricted to rows; a non-set
\* marker returns its single column from both.
C3_Original ==
    /\ SetXIsMean
    /\ ScalarUnaggregated
    /\ (mpc = "resolved" /\ marker.isSet /\ lastOp = "get_X_at") =>
        /\ aggCalls = 0
        /\ result = PerMemberRows

\* C3 (amended): as C3_Original, but get_X_at returns one vector per member
\* only when rows is None or a non-empty list; for the empty list a set marker
\* returns a single empty sequence, not one empty vector per member.
C3_SetAggregation ==
    /\ SetXIsMean
    /\ ScalarUnaggregated
    /\ (mpc = "resolved" /\ marker.isSet /\ lastOp = "get_X_at") =>
        /\ aggCalls = 0
        /\ (rowsArg.none \/ rowsArg.rows # <<>>) => result = PerMemberRows
        /\ (~rowsArg.none /\ rowsArg.rows = <<>>) => result = <<>>

\* The spec's example: get_X_at([0]) on the set {indices: [0, 1]} over
\* X[:,0] = [1,3], X[:,1] = [3,5] returned [[1],[3]].
C3_Witness ==
    /\ mpc = "resolved" /\ marker.isSet /\ lastOp = "get_X_at"
    /\ marker.matrix_index = <<0, 1>>
    /\ rowsArg = RowList(<<0>>)
    /\ result = << <<1>>, <<3>> >>
    /\ aggCalls = 0

\* C4: get_X_at([]) on any marker returns an empty sequence, raises nothing
\* and reads nothing from X; X is read only for None or a non-empty row list.
C4_EmptySelectionNoRead ==
    (mpc = "resolved" /\ lastOp = "get_X_at") =>
        /\ (~rowsArg.none /\ rowsArg.rows = <<>>) =>
              /\ result = <<>>
              /\ raised = "none"
              /\ xReads = 0
        /\ xReads > 0 => (rowsArg.none \/ Len(rowsArg.rows) > 0)

\* get_X_at([]) was called on a set marker with two members and read nothing.
C4_Witness ==
    /\ mpc = "resolved" /\ lastOp = "get_X_at"
    /\ marker.isSet /\ Len(marker.matrix_index) = 2
    /\ ~rowsArg.none /\ rowsArg.rows = <<>>
    /\ result = <<>> /\ xReads = 0

\* The members of a well-formed set reference that are strings absent from
\* the feature axis.
AbsentMembers(ref) ==
    {i \in DOMAIN ref.indices :
        /\ ref.indices[i].t = "str"
        /\ \A k \in 1..nVars : FeatureAxis(nVars)[k] # ref.indices[i].s}

\* C7: a string reference absent from the feature axis, given directly or as
\* a member of a set, fails with InvalidVar (status 400) and nothing else;
\* a string that is present resolves to its position in the feature axis.
C7_AbsentNameInvalidVar ==
    (lastOp # "none") =>
        /\ (mref.t = "str" /\ \A k \in 1..nVars : FeatureAxis(nVars)[k] # mref.s) =>
              /\ mpc = "failed"
              /\ raised = "InvalidVar"
              /\ status_code(raised) = 400
              /\ marker = NoMarker
        /\ (IsSetRef(mref) /\ AbsentMembers(mref) # {}) =>
              /\ mpc = "failed"
              /\ raised = "InvalidVar"
              /\ status_code(raised) = 400
        /\ (mref.t = "str" /\ \E k \in 1..nVars : FeatureAxis(nVars)[k] = mref.s) =>
              /\ mpc = "resolved"
              /\ ~marker.isSet
              /\ marker.matrix_index[1] \in 0..(nVars - 1)
              /\ FeatureAxis(nVars)[marker.matrix_index[1] + 1] = mref.s
              /\ marker.index = <<mref.s>>

\* "nonexistent_gene" was resolved as a member of a set and the call failed
\* with InvalidVar.
C7_Witness ==
    /\ lastOp = "from_any"
    /\ IsSetRef(mref)
    /\ Len(mref.indices) = 2
    /\ mref.indices[1] = IntRef(0)
    /\ mref.indices[2] = StrRef(AbsentName)
    /\ raised = "InvalidVar"

\* C8 as stated: an integer reference k resolves to matrix_index = k and
\* index = feature_axis[k] when 0 <= k < number of features, and fails with
\* InvalidVar for every other integer, any negative k included.
C8_Original ==
    (lastOp # "none" /\ mref.t = "int") =>
        IF 0 <= mref.k /\ mref.k < nVars
        THEN /\ mpc = "resolved"
             /\ marker.matrix_index = <<mref.k>>
             /\ marker.index = <<FeatureAxis(nVars)[mref.k + 1]>>
        ELSE /\ mpc = "failed"
             /\ raised = "InvalidVar"

\* C9 as stated: from_any fails with InvalidVar (the invalid-input kind), and
\* never with a KeyError or another generic exception, for a reference that is
\* neither int, str nor a well-formed dict: a dict without 'name' or without
\* 'indices', or with a member that is neither int nor str.
C9_Original ==
    (lastOp # "none") =>
        /\ mref.t = "other" => (mpc = "failed" /\ raised = "InvalidVar")
        /\ (mref.t = "dict" /\ (~mref.hasName \/ ~mref.hasIndices)) =>
              (mpc = "failed" /\ raised = "InvalidVar")
        /\ (IsSetRef(mref) /\ \E i \in DOMAIN mref.indices :
                                 mref.indices[i].t = "other") =>
              (mpc = "failed" /\ raised = "InvalidVar")

\* ------------------------------------------------- claims on categorization
\* The label of row i of a categorical series, "" for a missing entry.
LabelAt(s, i) == IF s.codes[i] = 0 - 1 THEN "" ELSE s.cats[s.codes[i] + 1]

\* The bin of value x under increasing thresholds th, as the claim words it:
\* the number of the interval holding x, the lowest edge in the first one.
InRange(x, th) == th[1] <= x /\ x <= th[Len(th)]
IntervalOf(x, th) ==
    CHOOSE j \in 0..(Len(th) - 2) :
        \/ th[j + 1] < x /\ x <= th[j + 2]
        \/ j = 0 /\ x = th[1]

\* C1 as stated: continuous with explicit thresholds and the default nBins,
\* whatever the number of distinct values: a value inside [t0, tk] gets the
\* number of its threshold interval as category, a value outside becomes
\* the undefined category with fillna=True and stays missing with
\* fillna=False.
C1_Original ==
    (colOp = "to_categorical" /\ creq.type = "continuous"
        /\ creq.thresholds # <<>> /\ creq.nBins = DefaultNBins) =>
        \A i \in DOMAIN decoded.vals :
            ~decoded.na[i] =>
                IF InRange(decoded.vals[i], creq.thresholds)
                THEN LabelAt(cres.cat, i) =
                        ToString(IntervalOf(decoded.vals[i], creq.thresholds))
                ELSE IF creq.fillna
                THEN LabelAt(cres.cat, i) = "undefined"
                ELSE cres.cat.codes[i] = 0 - 1

\* u is the synthetic label the claim prescribes for categories C.
IsSyntheticLabel(u, C) ==
    IF "undefined" \notin Range(C)
    THEN u = "undefined"
    ELSE \E k \in 1..(Len(C) + 1) :
            /\ u = "undefined_" \o ToString(k)
            /\ \A j \in 1..(k - 1) : ("undefined_" \o ToString(j)) \in Range(C)

\* values is C with exactly one synthetic category appended last.
OneSyntheticAppended(values, C) ==
    /\ Len(values) = Len(C) + 1
    /\ SubSeq(values, 1, Len(C)) = C
    /\ values[Len(C) + 1] \notin Range(C)
    /\ IsSyntheticLabel(values[Len(C) + 1], C)

\* C2: for a categorical column with a missing value, fillna_as_undefined /
\* type_category append exactly one synthetic category, last, named
\* "undefined" or "undefined_k" for the smallest free k >= 1; it equals no
\* existing category, its code is -1 and the real codes are 0..n-1 in
\* declaration order; without a missing value no category is added.
C2_UndefinedCategory ==
    /\ (colOp = "type_category") =>
        LET C == decoded.cats
            missing == \E i \in DOMAIN decoded.codes : decoded.codes[i] = 0 - 1
        IN  /\ missing =>
                /\ OneSyntheticAppended(cmeta.values, C)
                /\ cmeta.codes[cmeta.values[Len(C) + 1]] = 0 - 1
                /\ cmeta.n_values = Len(C) + 1
            /\ ~missing => cmeta.values = C /\ cmeta.n_values = Len(C)
            /\ \A i \in DOMAIN C :
                /\ cmeta.codes[C[i]] = i - 1
                /\ cmeta.codes[C[i]] # 0 - 1
    /\ (colOp = "to_categorical" /\ creq.type = "categorical" /\ creq.fillna) =>
        LET C == decoded.cats
            missing == \E i \in DOMAIN decoded.codes : decoded.codes[i] = 0 - 1
        IN  /\ missing => OneSyntheticAppended(cres.cat.cats, C)
            /\ ~missing => cres.cat.cats = C

\* type_category ran on a column with a missing entry whose categories
\* already hold "undefined" and "undefined_1": "undefined_2" was appended
\* with code -1.
C2_Witness ==
    /\ colOp = "type_category"
    /\ decoded.cats = <<"undefined", "True", "undefined_1">>
    /\ decoded.codes = <<0 - 1, 1>>
    /\ cmeta.values = <<"undefined", "True", "undefined_1", "undefined_2">>
    /\ cmeta.codes["undefined_2"] = 0 - 1

\* The labels of the distinct non-missing values of a float column.
DistinctLabels(col) ==
    {StrFloat(col.vals[i]) : i \in {j \in DOMAIN col.vals : ~col.na[j]}}

DiscretePassThroughCase ==
    /\ colOp = "to_categorical"
    /\ creq.type = "discrete"
    /\ Cardinality(DistinctLabels(decoded)) <= creq.nBins

\* Every row with a value keeps its own value as its category.
RowsKeepValue ==
    \A i \in DOMAIN decoded.vals :
        ~decoded.na[i] => LabelAt(cres.cat, i) = StrFloat(decoded.vals[i])

\* C6 as stated: a discrete column with at most nBins distinct values comes
\* back with None as second value and with categories equal, as a set, to
\* its distinct values, every row keeping its value as its category.
C6_Original ==
    DiscretePassThroughCase =>
        /\ ~cres.binned
        /\ Range(cres.cat.cats) = DistinctLabels(decoded)
        /\ RowsKeepValue

\* C6 (amended): as C6_Original, except that with fillna=True a column that
\* has a missing value gets the one synthetic undefined category besides its
\* distinct values, holding exactly the missing rows; with fillna=False
\* those rows stay missing.
C6_DiscretePassThrough ==
    DiscretePassThroughCase =>
        LET missing == \E i \in DOMAIN decoded.na : decoded.na[i]
        IN  /\ ~cres.binned
            /\ Range(cres.cat.cats) =
                 DistinctLabels(decoded) \cup
                    (IF creq.fillna /\ missing THEN {"undefined"} ELSE {})
            /\ Len(cres.cat.cats) = Cardinality(Range(cres.cat.cats))
            /\ RowsKeepValue
            /\ \A i \in DOMAIN decoded.vals :
                 decoded.na[i] =>
                    LabelAt(cres.cat, i) = (IF creq.fillna THEN "undefined" ELSE "")

\* The column [1.5, NaN, 0.5] went through discrete with nBins = 2 and
\* fillna=True.
C6_Witness ==
    /\ DiscretePassThroughCase
    /\ decoded.vals = <<3, 0, 1>>
    /\ decoded.na = <<FALSE, TRUE, FALSE>>
    /\ creq.nBins = 2
    /\ creq.fillna
    /\ ~cres.binned
    /\ cres.cat.cats = <<"0.5", "1.5", "undefined">>
    /\ cres.cat.codes = <<1, 2, 0>>

IsLegacyBoolean(col) ==
    /\ col.kind = "cat"
    /\ Len(col.cats) = 2
    /\ Range(col.cats) = {"True", "False"}

\* C10 as stated: a categorical whose categories are exactly "True" and
\* "False" decodes to a boolean column, true on the rows labelled "True" and
\* false on those labelled "False"; re-encoding it with type 'boolean' gives
\* at most the categories "True" and "False" and gives every row the label
\* it had in the source (a row without a label stays without one); any other
\* categorical is returned unchanged.
C10_Original ==
    /\ (cpc \in {"parsed", "done"} /\ IsLegacyBoolean(stored)) =>
        /\ decoded.kind = "bool"
        /\ Len(decoded.vals) = Len(stored.codes)
        /\ \A i \in DOMAIN stored.codes :
            /\ LabelAt(stored, i) = "True" => decoded.vals[i] = 1
            /\ LabelAt(stored, i) = "False" => decoded.vals[i] = 0
    /\ (colOp = "to_categorical" /\ IsLegacyBoolean(stored)) =>
        /\ creq.type = "boolean"
        /\ Range(cres.cat.cats) \subseteq {"True", "False"}
        /\ \A i \in DOMAIN stored.codes :
            LabelAt(cres.cat, i) = LabelAt(stored, i)
    /\ (cpc \in {"parsed", "done"} /\ stored.kind = "cat"
            /\ ~IsLegacyBoolean(stored)) =>
        decoded = stored

\* ------------------------------------------------------- claims on resample
\* C5: for a non-empty vector v and n >= 0, resample(v, n) returns n + 2
\* elements, min(v) first and max(v) second.
C5_ResampleExtremes ==
    (rpc \in {"seeded", "drawn", "done"} => rdata # <<>>)
    /\ (rdata # <<>> => rpc # "failed")
    /\ (rpc = "done" =>
            /\ rerr = "none"
            /\ Len(rout) = rn + 2
            /\ rout[1] \in Range(rdata)
            /\ \A i \in DOMAIN rdata : rout[1] <= rdata[i]
            /\ rout[2] \in Range(rdata)
            /\ \A i \in DOMAIN rdata : rout[2] >= rdata[i])

\* resample([5, 1, 3], 3) returned five elements starting 1, 5.
C5_Witness ==
    /\ rpc = "done"
    /\ rdata = <<5, 1, 3>>
    /\ rn = 3
    /\ Len(rout) = 5
    /\ rout[1] = 1
    /\ rout[2] = 5

\* ------------------------------------------------- claims on column metadata
MetadataCase == colOp \in {"type_category", "type_bool", "type_discrete"}

\* The series the metadata function is given.
SourceSeries == astype_category(decoded)

\* C11 as stated: the hasnans flag of the metadata returned by type_category,
\* type_discrete and type_bool is true exactly when the source column has at
\* least one missing value.
C11_Original ==
    MetadataCase => (cmeta.hasnans <=> hasnans(SourceSeries))

RowsWithCode(s, c) == {i \in DOMAIN s.codes : s.codes[i] = c}

\* C12: in the metadata of type_category the missing rows are counted under
\* the synthetic category: values is the declared categories followed, when a
\* value is missing, by one new label whose count is the number of missing
\* rows; every declared category's count is the number of rows holding it (0
\* when unused); the counts sum to the number of rows; n_values is the length
\* of values.
C12_CountsFolded ==
    colOp = "type_category" =>
        LET src == SourceSeries
            n == Len(src.cats)
            missing == RowsWithCode(src, 0 - 1)
            values == cmeta.values
        IN  /\ cmeta.n_values = Len(values)
            /\ DOMAIN cmeta.value_counts = Range(values)
            /\ SubSeq(values, 1, n) = src.cats
            /\ IF missing = {}
               THEN Len(values) = n
               ELSE /\ Len(values) = n + 1
                    /\ values[n + 1] \notin Range(src.cats)
                    /\ cmeta.value_counts[values[n + 1]] = Cardinality(missing)
            /\ \A i \in 1..n :
                 cmeta.value_counts[src.cats[i]]
                     = Cardinality(RowsWithCode(src, i - 1))
            /\ SumSeq([i \in DOMAIN values |-> cmeta.value_counts[values[i]]])
                 = Len(src.codes)

\* type_category has counted a column with two missing rows and an unused
\* category named "undefined".
C12_Witness ==
    /\ colOp = "type_category"
    /\ decoded = CatCol(<<"undefined", "True">>, <<0 - 1, 1, 0 - 1>>)
    /\ cmeta.values = <<"undefined", "True", "undefined_1">>
    /\ cmeta.value_counts["undefined_1"] = 2
    /\ cmeta.value_counts["undefined"] = 0

\* ------------------------------------------------------------ HTTP requests
\* The dataset behind a request: MaxVars features, MaxObs observations, the
\* matrix XAt, a categorical obs column and the obs column naming the mask of
\* each observation.
ObsColumn == CatCol(<<"a", "b">>, [r \in 1..MaxObs |-> (r - 1) % 2])
MaskColumn == CatCol(<<"m0", "m1">>, [r \in 1..MaxObs |-> r % 2])

\* The labels of a categorical at a row selection (None: every row);
\* Categorical[obs_indices] and DataFrame.iloc[obs_indices] are positional.
LabelsAt(cat, arg) ==
    IF arg.none THEN [r \in DOMAIN cat.codes |-> LabelAt(cat, r)]
    ELSE [k \in DOMAIN arg.rows |-> LabelAt(cat, arg.rows[k] + 1)]

\* The error classes of resources/errors.py.
ErrorKinds ==
    {"InternalServerError", "ReadZarrError", "InvalidKey", "InvalidObs",
     "InvalidVar", "BadRequest", "FetchError", "NotInData"}

\* The message an error class carries when it is raised without one.
DefaultMessage(kind) ==
    CASE kind = "InternalServerError" -> "Internal server error"
      [] kind = "ReadZarrError" -> "Error reading zarr"
      [] kind = "InvalidKey" -> "Invalid key"
      [] kind = "InvalidObs" -> "Invalid obs"
      [] kind = "InvalidVar" -> "Invalid var"
      [] kind = "BadRequest" -> "Bad request"
      [] kind = "FetchError" -> "Error fetching data"
      [] kind = "NotInData" -> "Data not found"
      [] OTHER -> ""

\* StatusCode with every class given the status of a bad request.
StatusCode_all400(kind) == 400

\* The status_code an exception carries when raised with its message only:
\* the default of its class. An exception that is none of these classes has
\* no status_code and leaves the application as an unhandled error.
StatusCode(kind) ==
    CASE kind = "InternalServerError" -> 500
      [] kind = "ReadZarrError" -> 400
      [] kind = "InvalidKey" -> 400
      [] kind = "InvalidObs" -> 400
      [] kind = "InvalidVar" -> 400
      [] kind = "BadRequest" -> 400
      [] kind = "FetchError" -> 500
      [] kind = "NotInData" -> 404
      [] OTHER -> 500

Ok(values, labels) ==
    [status |-> "ok", code |-> 200, values |-> values, labels |-> labels]
Raise(kind) ==
    [status |-> kind, code |-> StatusCode(kind), values |-> <<>>, labels |-> <<>>]

\* to_categorical(obs, **obs_col) of the requested obs column.
GroupingAxis ==
    to_categorical(parse_data(ObsColumn),
                   Request("categorical", <<>>, DefaultNBins, TRUE)).cat

\* Marker.from_any(adata_group, var_key) for the feature the request names:
\* [err, marker].
RequestMarker(req) == from_any(MaxVars, req.varKey, FALSE)

\* get_obs_col_histograms: a column missing from obs is NotInData; the
\* categorical and the marker data are both taken at obs_indices.
get_obs_col_histograms(req) ==
    IF ~req.colPresent THEN Raise("NotInData")
    ELSE IF RequestMarker(req).err # "none" THEN Raise(RequestMarker(req).err)
    ELSE Ok(get_X_at(MaxVars, MaxObs, RequestMarker(req).marker, req.rows).result,
            LabelsAt(GroupingAxis, req.rows))

\* get_var_histograms and get_var_x_mean: marker data at obs_indices, no
\* grouping column.
get_var_histograms(req) ==
    IF RequestMarker(req).err # "none" THEN Raise(RequestMarker(req).err)
    ELSE Ok(get_X_at(MaxVars, MaxObs, RequestMarker(req).marker, req.rows).result, <<>>)

get_var_x_mean(req) ==
    IF RequestMarker(req).err # "none" THEN Raise(RequestMarker(req).err)
    ELSE Ok(get_X_at(MaxVars, MaxObs, RequestMarker(req).marker, req.rows).result, <<>>)

\* dotplot: the markers are resolved first and an InvalidVar raised there is
\* not caught; a KeyError on the obs column is InvalidObs; the frame of marker.X
\* and the categorical column is cut with iloc[obs_indices]; standard_scale
\* is compared with "group", "var" and None and is otherwise left unused.
dotplot(req) ==
    IF RequestMarker(req).err # "none" THEN Raise(RequestMarker(req).err)
    ELSE IF ~req.colPresent THEN Raise("InvalidObs")
    ELSE LET full == X(MaxVars, MaxObs, RequestMarker(req).marker).result
         IN  Ok(IF req.rows.none THEN full
                ELSE [k \in DOMAIN req.rows.rows |-> full[req.rows.rows[k] + 1]],
                LabelsAt(GroupingAxis, req.rows))


\* Heatmap.post and Matrixplot.post call heatmap(...) and matrixplot(...)
\* with the keywords var_keys and obs_indices; neither function has such a
\* parameter (they take `markers` and no row list), so the call itself raises
\* TypeError before any line of the function runs.
HeatmapPost(req) == Raise("TypeError")
MatrixplotPost(req) == Raise("TypeError")

\* Violin.post then violin: mode "multikey" builds params without a row list
\* and plots every row; mode "groupby" puts obs_indices in params, which
\* groupby_violin does not accept; any other mode leaves params unbound.
\* multikey_violin resolves the markers first; scale is only checked by
\* plotly, in fig.update_traces(scalemode=scale), after the figure is built.
ViolinPost(req) ==
    IF req.mode = "multikey"
    THEN IF RequestMarker(req).err # "none" THEN Raise(RequestMarker(req).err)
         ELSE IF req.scale \notin {"width", "count"} THEN Raise("ValueError")
         ELSE Ok(X(MaxVars, MaxObs, RequestMarker(req).marker).result, <<>>)
    ELSE IF req.mode = "groupby" THEN Raise("TypeError")
    ELSE Raise("UnboundLocalError")

\* validate_pseudospatial: the mask set must be in uns["masks"] and must have
\* a non-empty "polygons" entry; NotInData otherwise.
validate_pseudospatial(mask) ==
    IF mask = "absent" THEN "NotInData"
    ELSE IF mask = "nopolygons" THEN "NotInData"
    ELSE "none"

\* validate_format
validate_format(format) ==
    IF format \in {"png", "svg", "html", "json"} THEN "none" ELSE "BadRequest"

\* plot_polygons(**kwargs): the handlers copy obsIndices, when the body has
\* it, into the keyword obs_indices, which the pseudospatial functions pass
\* on to plot_polygons, and plot_polygons has no such parameter.
plot_polygons(req, values, labels) ==
    IF ~req.rows.none THEN Raise("TypeError") ELSE Ok(values, labels)

\* pseudospatial_gene: the mask set and the format are validated, then the
\* marker is resolved inside `try ... except InvalidVar: raise NotInData`, so
\* an unresolved feature leaves as NotInData and any other failure of the
\* resolution leaves as it is. The obs column is read only when obs_col and
\* obs_values are both given; the rows kept are those whose category is in
\* obs_values (here every category), for the mask column and the marker alike.
pseudospatial_gene(req) ==
    IF validate_pseudospatial(req.mask) # "none"
    THEN Raise(validate_pseudospatial(req.mask))
    ELSE IF validate_format(req.format) # "none" THEN Raise("BadRequest")
    ELSE IF RequestMarker(req).err = "InvalidVar" THEN Raise("NotInData")
    ELSE IF RequestMarker(req).err # "none" THEN Raise(RequestMarker(req).err)
    ELSE IF req.hasObsValues /\ ~req.colPresent THEN Raise("InvalidObs")
    ELSE LET kept == IF req.hasObsValues
                     THEN RowList([r \in 1..MaxObs |-> r - 1])
                     ELSE NoneRows
         IN  plot_polygons(req,
                 get_X_at(MaxVars, MaxObs, RequestMarker(req).marker, kept).result,
                 LabelsAt(MaskColumn, kept))

\* pseudospatial_categorical: format, then the column (NotInData when it is
\* not in obs), then mode.
pseudospatial_categorical(req) ==
    IF validate_pseudospatial(req.mask) # "none"
    THEN Raise(validate_pseudospatial(req.mask))
    ELSE IF validate_format(req.format) # "none" THEN Raise("BadRequest")
    ELSE IF ~req.colPresent THEN Raise("NotInData")
    ELSE IF req.mode \notin {"across", "within"} THEN Raise("BadRequest")
    ELSE plot_polygons(req, <<>>, LabelsAt(GroupingAxis, NoneRows))

\* pseudospatial_continuous: format, then the column (NotInData).
pseudospatial_continuous(req) ==
    IF validate_pseudospatial(req.mask) # "none"
    THEN Raise(validate_pseudospatial(req.mask))
    ELSE IF validate_format(req.format) # "none" THEN Raise("BadRequest")
    ELSE IF ~req.colPresent THEN Raise("NotInData")
    ELSE plot_polygons(req, <<>>, LabelsAt(GroupingAxis, NoneRows))

\* The function a resource's post method calls once the dataset is open.
RunEntry(req) ==
    CASE req.entry = "obs_histograms" -> get_obs_col_histograms(req)
      [] req.entry = "var_histograms" -> get_var_histograms(req)
      [] req.entry = "matrix_mean" -> get_var_x_mean(req)
      [] req.entry = "dotplot" -> dotplot(req)
      [] req.entry = "heatmap" -> HeatmapPost(req)
      [] req.entry = "matrixplot" -> MatrixplotPost(req)
      [] req.entry = "violin" -> ViolinPost(req)
      [] req.entry = "pseudospatial_gene" -> pseudospatial_gene(req)
      [] req.entry = "pseudospatial_categorical" -> pseudospatial_categorical(req)
      [] req.entry = "pseudospatial_continuous" -> pseudospatial_continuous(req)


\* ------------------------------------------------------------ the requests
Req(entry, urlOk, rows, colPresent, hasObsValues, scale, mode, format) ==
    [entry |-> entry, urlOk |-> urlOk, rows |-> rows,
     colPresent |-> colPresent, hasObsValues |-> hasObsValues,
     scale |-> scale, mode |-> mode, format |-> format,
     varKey |-> IntRef(0), mask |-> "present"]

\* obsIndices: absent, or a list of row positions (repeats and any order).
RowChoices ==
    {NoneRows} \cup {RowList(q) : q \in SeqsUpTo(0..(MaxObs - 1), MaxSetLen)}

StandardScales == {"None", "var", "group", "bogus"}
ViolinScales == {"width", "count", "bogus"}
ViolinModes == {"groupby", "multikey", "bogus"}
PseudospatialModes == {"across", "within", "bogus"}
Formats == {"png", "json", "bogus"}

\* Entry points that group by an obs column named in the request.
ObsColEntries ==
    {"obs_histograms", "dotplot", "heatmap", "matrixplot", "violin",
     "pseudospatial_gene", "pseudospatial_categorical",
     "pseudospatial_continuous"}

\* Entry points that resolve a marker named in the request.
MarkerEntries ==
    {"obs_histograms", "var_histograms", "matrix_mean", "dotplot", "heatmap",
     "matrixplot", "violin", "pseudospatial_gene"}

PseudospatialEntries ==
    {"pseudospatial_gene", "pseudospatial_categorical", "pseudospatial_continuous"}

\* varKey: a position of the feature axis, or a name that is not on it.
VarKeys == {IntRef(0), StrRef(AbsentName)}

\* The mask set named by the request: in uns["masks"] with polygons, not in
\* uns["masks"], or there with no polygons.
MaskStates == {"present", "absent", "nopolygons"}

BaseRequests ==
    {Req(e, u, r, c, FALSE, "", "", "") :
        e \in {"obs_histograms", "heatmap"}, u \in BOOLEAN, r \in RowChoices,
        c \in BOOLEAN}
    \cup {Req(e, u, r, TRUE, FALSE, "", "", "") :
        e \in {"var_histograms", "matrix_mean"}, u \in BOOLEAN, r \in RowChoices}
    \cup {Req(e, u, r, c, FALSE, s, "", "") :
        e \in {"dotplot", "matrixplot"}, u \in BOOLEAN, r \in RowChoices,
        c \in BOOLEAN, s \in StandardScales}
    \cup {Req("violin", u, r, c, FALSE, s, m, "") :
        u \in BOOLEAN, r \in RowChoices, c \in BOOLEAN, s \in ViolinScales,
        m \in ViolinModes}
    \cup {Req("pseudospatial_gene", u, r, c, v, "", "", f) :
        u \in BOOLEAN, r \in RowChoices, c \in BOOLEAN, v \in BOOLEAN,
        f \in Formats}
    \cup {Req("pseudospatial_categorical", u, r, c, FALSE, "", m, f) :
        u \in BOOLEAN, r \in RowChoices, c \in BOOLEAN,
        m \in PseudospatialModes, f \in Formats}
    \cup {Req("pseudospatial_continuous", u, r, c, FALSE, "", "", f) :
        u \in BOOLEAN, r \in RowChoices, c \in BOOLEAN, f \in Formats}

Requests ==
    {r \in {[b EXCEPT !.varKey = k, !.mask = m] :
                b \in BaseRequests, k \in VarKeys, m \in MaskStates} :
        /\ r.entry \notin MarkerEntries => r.varKey = IntRef(0)
        /\ r.entry \notin PseudospatialEntries => r.mask = "present"}

RequestInit ==
    /\ qreq \in Requests
    /\ qpc = "received"
    /\ qout = NoOut
    /\ handles = 0
    /\ MarkersOff
    /\ ColumnsOff
    /\ ResampleOff
    /\ FetchOff
    /\ StreamOff
    /\ OthersOff

\* open_anndata_zarr(json_data["url"]): the group is opened and bound to a
\* local of the handler, or ReadZarrError leaves the handler.
OpenDataset ==
    /\ qpc = "received"
    /\ IF qreq.urlOk
       THEN /\ handles' = handles + 1
            /\ qpc' = "opened"
            /\ qout' = qout
       ELSE /\ handles' = handles
            /\ qpc' = "returned"
            /\ qout' = Raise("ReadZarrError")
    /\ UNCHANGED <<qreq, mvars, cvars, rvars, fvars, svars, ovars>>

\* The rest of the post method: the entry function returns or raises and the
\* handler's frame, with its reference to the group, is gone.
RunHandler ==
    /\ qpc = "opened"
    /\ qout' = RunEntry(qreq)
    /\ qpc' = "returned"
    /\ UNCHANGED <<qreq, handles, mvars, cvars, rvars, fvars, svars, ovars>>

\* The response (or the error response) has been sent: the request is over.
EndRequest ==
    /\ qpc = "returned"
    /\ qpc' = "done"
    /\ UNCHANGED <<qreq, qout, handles, mvars, cvars, rvars, fvars, svars, ovars>>

\* No handler closes the group or its store; a group nothing refers to any
\* more is reclaimed when the runtime collects it.
Collect ==
    /\ qpc \in {"returned", "done"}
    /\ handles > 0
    /\ handles' = handles - 1
    /\ UNCHANGED <<qpc, qreq, qout, mvars, cvars, rvars, fvars, svars, ovars>>

RequestNext == OpenDataset \/ RunHandler \/ EndRequest \/ Collect

RequestSpec == RequestInit /\ [][RequestNext]_vars


\* --------------------------------------------------- claims on the requests
Returned == qpc \in {"returned", "done"} /\ qout.status # "ReadZarrError"

\* The rows of the request, spelled out (None: every row, in order).
RequestedRows ==
    IF qreq.rows.none THEN [r \in 1..MaxObs |-> r - 1] ELSE qreq.rows.rows

RowTakingEntries ==
    {"obs_histograms", "var_histograms", "matrix_mean", "dotplot", "heatmap",
     "matrixplot", "violin", "pseudospatial_gene",
     "pseudospatial_categorical", "pseudospatial_continuous"}

ValidOptions ==
    /\ RequestMarker(qreq).err = "none"
    /\ qreq.mask = "present"
    /\ qreq.scale \in {"", "None", "var", "group", "width", "count"}
    /\ qreq.mode \in {"", "groupby", "across", "within"}
    /\ qreq.format \in {"", "png", "json"}

\* C13 as stated: every entry point that takes a list of row positions hands
\* to its aggregation exactly the marker values of those rows, in that order,
\* and, where it groups, the group labels of the same rows in the same order.
C13_Original ==
    (/\ Returned
     /\ qreq.entry \in RowTakingEntries
     /\ ~qreq.rows.none
     /\ qreq.colPresent
     /\ ValidOptions) =>
        /\ qout.status = "ok"
        /\ qreq.entry \notin {"pseudospatial_categorical",
                              "pseudospatial_continuous"} =>
              qout.values = [k \in DOMAIN RequestedRows |->
                                XAt(RequestedRows[k], 0)]
        /\ qreq.entry \in {"obs_histograms", "dotplot", "heatmap",
                           "matrixplot", "violin"} =>
              qout.labels = [k \in DOMAIN RequestedRows |->
                                LabelAt(ObsColumn, RequestedRows[k] + 1)]


\* ----------------------------------------- claims on missing values and bins
\* Row i of the column handed to to_categorical has no value.
MissingAt(i) ==
    IF decoded.kind = "cat" THEN decoded.codes[i] = 0 - 1 ELSE decoded.na[i]

RowsOf(col) == IF col.kind = "cat" THEN DOMAIN col.codes ELSE DOMAIN col.vals

\* Row i has a value that explicit thresholds leave out.
OutsideThresholds(i) ==
    /\ creq.type = "continuous"
    /\ creq.thresholds # <<>>
    /\ ~InRange(decoded.vals[i], creq.thresholds)

\* Row i of the result is in the synthetic undefined category.
InUndefinedAt(i) ==
    LET lab == LabelAt(cres.cat, i)
    IN  /\ cres.cat.codes[i] # 0 - 1
        /\ lab \notin Range(SourceSeries.cats)
        /\ IsSyntheticLabel(lab, SourceSeries.cats)

\* C14 as stated: for the four types, binned or not, to_categorical returns
\* and with fillna=True every row without a value is in the synthetic
\* undefined category, with fillna=False it stays missing; a row with a
\* value is in neither state unless explicit thresholds leave it out.
C14_Original ==
    colOp = "to_categorical" =>
        /\ cres.err = "none"
        /\ \A i \in RowsOf(decoded) :
             IF MissingAt(i)
             THEN IF creq.fillna THEN InUndefinedAt(i)
                  ELSE cres.cat.codes[i] = 0 - 1
             ELSE ~OutsideThresholds(i) =>
                     (~InUndefinedAt(i) /\ cres.cat.codes[i] # 0 - 1)

\* C15 as stated: when to_categorical bins a continuous or discrete column
\* (more distinct values than nBins) its second value is the number of bin
\* categories of the result, the synthetic undefined category not counted;
\* when it does not bin, the second value is None.
C15_Original ==
    (colOp = "to_categorical" /\ creq.type \in {"continuous", "discrete"}) =>
        IF Len(SourceSeries.cats) > creq.nBins
        THEN /\ cres.err = "none"
             /\ cres.binned
             /\ cres.bins = Cardinality({cres.cat.codes[i] : i \in
                                {j \in DOMAIN cres.cat.codes :
                                    /\ cres.cat.codes[j] # 0 - 1
                                    /\ ~InUndefinedAt(j)}})
        ELSE ~cres.binned

\* ---------------------------------------------------------------------------
\* The disease resources and the remote search service.

\* What requests.get gave back: a transport failure, or a response with a
\* status code and a body that is JSON with a "data" list, JSON without one,
\* or not JSON at all.
Statuses == {200, 201, 304, 400, 404, 500}

Bodies == {"data", "nodata", "notjson"}

Remotes ==
    {[transport |-> TRUE, status |-> 0, body |-> "none"]}
        \cup {[transport |-> FALSE, status |-> st, body |-> b] : st \in Statuses, b \in Bodies}

FetchEntries == {"search_diseases", "get_disease_genes", "get_disease_gene", "search_disease_genes"}

\* The entry points whose post method opens the dataset before searching.
OpensDataset(entry) == entry \in {"get_disease_genes", "search_disease_genes"}

FetchRequests ==
    {[entry |-> e, configured |-> c, keysOk |-> k, urlOk |-> u] :
        e \in FetchEntries, c \in BOOLEAN, k \in BOOLEAN, u \in BOOLEAN}

\* requests.Response.__bool__ is Response.ok: false for a 4xx or 5xx status.
ResponseOk(remote) == remote.status < 400

\* get_from_strapi: the configuration lookup and the GET may raise; a response
\* that is falsy or whose status is not 200 is answered with an {"error": ...}
\* dictionary, returned normally; otherwise the body is parsed as JSON.
get_from_strapi(req, remote) ==
    IF ~req.configured THEN [kind |-> "raised", exc |-> "KeyError", hasData |-> FALSE]
    ELSE IF remote.transport THEN [kind |-> "raised", exc |-> "ConnectionError", hasData |-> FALSE]
    ELSE IF ~ResponseOk(remote) THEN [kind |-> "errordict", exc |-> "none", hasData |-> FALSE]
    ELSE IF remote.status # 200 THEN [kind |-> "errordict", exc |-> "none", hasData |-> FALSE]
    ELSE IF remote.body = "notjson" THEN [kind |-> "raised", exc |-> "JSONDecodeError", hasData |-> FALSE]
    ELSE [kind |-> "json", exc |-> "none", hasData |-> remote.body = "data"]

FetchOut(status, cause) == [status |-> status, cause |-> cause]

FetchInit ==
    /\ fpc = "start"
    /\ freq \in {r \in FetchRequests : OpensDataset(r.entry) \/ r.urlOk}
    /\ fremote \in Remotes
    /\ fres = NoFetched
    /\ fout = NoFetchOut
    /\ MarkersOff
    /\ ColumnsOff
    /\ ResampleOff
    /\ RequestsOff
    /\ StreamOff
    /\ OthersOff

\* The post method up to the search: a required key missing from the body is a
\* KeyError, turned into BadRequest; a dataset that cannot be opened raises
\* ReadZarrError.
RejectRequest ==
    /\ fpc = "start"
    /\ ~freq.keysOk \/ ~freq.urlOk
    /\ fout' = IF OpensDataset(freq.entry) /\ ~freq.urlOk
                  THEN FetchOut("ReadZarrError", "ReadZarrError")
                  ELSE FetchOut("BadRequest", "KeyError")
    /\ fpc' = "done"
    /\ UNCHANGED <<freq, fremote, fres, mvars, cvars, rvars, qvars, svars, ovars>>

\* try: res = get_from_strapi(...) except Exception: raise FetchError(...)
CallStrapi ==
    /\ fpc = "start"
    /\ freq.keysOk
    /\ freq.urlOk
    /\ fres' = get_from_strapi(freq, fremote)
    /\ IF fres'.kind = "raised"
          THEN fout' = FetchOut("FetchError", fres'.exc) /\ fpc' = "done"
          ELSE fout' = fout /\ fpc' = "fetched"
    /\ UNCHANGED <<freq, fremote, mvars, cvars, rvars, qvars, svars, ovars>>

\* res["data"] is read after the try block: a result without that key raises
\* KeyError, which the post method turns into BadRequest.
ReadData ==
    /\ fpc = "fetched"
    /\ fout' = IF fres.hasData THEN FetchOut("ok", "none") ELSE FetchOut("BadRequest", "KeyError")
    /\ fpc' = "done"
    /\ UNCHANGED <<freq, fremote, fres, mvars, cvars, rvars, qvars, svars, ovars>>

FetchNext ==
    \/ RejectRequest
    \/ CallStrapi
    \/ ReadData

FetchSpec == FetchInit /\ [][FetchNext]_vars

\* The search service was asked and did not answer with a 2xx response.
RemoteFailed == fremote.transport \/ fremote.status < 200 \/ fremote.status > 299

\* C16: whenever the remote search service is asked and answers with a non-2xx
\* status or cannot be reached, the request ends in FetchError, whichever of
\* the four entry points made it.
C16_Original ==
    (fpc = "done" /\ fres.kind # "none" /\ RemoteFailed) => fout.status = "FetchError"

\* The request names an obs column and the entry point reads it.
TakesObsColumn ==
    /\ qreq.entry \in ObsColEntries
    /\ qreq.entry = "violin" => qreq.mode = "groupby"
    /\ qreq.entry = "pseudospatial_gene" => qreq.hasObsValues

\* C17: whenever an entry point that takes an obs column is given a column
\* that is not in obs, the request fails with InvalidObs, the same kind at
\* every call site.
C17_Original ==
    (Returned /\ TakesObsColumn /\ ~qreq.colPresent /\ ValidOptions) =>
        qout.status = "InvalidObs"

\* The request carries an enumerated option with a value outside its set.
InvalidOption ==
    \/ qreq.entry = "violin" /\ qreq.mode \notin {"groupby", "multikey"}
    \/ qreq.entry = "violin" /\ qreq.scale \notin {"width", "count"}
    \/ qreq.entry \in {"dotplot", "matrixplot"} /\ qreq.scale \notin {"None", "var", "group"}
    \/ qreq.entry = "pseudospatial_categorical" /\ qreq.mode \notin {"across", "within"}
    \/ /\ qreq.entry \in {"pseudospatial_gene", "pseudospatial_categorical",
                          "pseudospatial_continuous"}
       /\ qreq.format \notin {"png", "svg", "html", "json"}

\* C18: whenever a request carries an invalid enumerated option value (violin
\* scale or mode, dotplot or matrixplot standardScale, pseudospatial mode,
\* plot format), it is rejected with BadRequest: never a successful plot,
\* never another error kind.
C18_Original ==
    (/\ Returned
     /\ InvalidOption
     /\ qreq.colPresent
     /\ RequestMarker(qreq).err = "none"
     /\ qreq.mask = "present") => qout.status = "BadRequest"

\* C19: whenever a request that opened a dataset handle with
\* open_anndata_zarr has ended, on whatever path, the handle has been
\* released.
C19_Original == qpc = "done" => handles = 0

\* ---------------------------------------------------------------------------
\* ObsCols.post: the streamed obs/cols response.

ColNames == {"a", "b", "c"}

StreamRequests ==
    {[urlOk |-> u, cols |-> q] : u \in BOOLEAN, q \in SeqsUpTo(ColNames, MaxLen)}

\* make_cache_key(*args, **kwargs) reads neither: the key is a digest of the
\* method, path and body of the request being served, whatever the chunk.
make_cache_key(req, chunk) == <<"POST", "/obs/cols", req.cols>>

\* cache.get: the value under the key, "None" when the key holds nothing.
cache_get(cache, key) ==
    IF \E e \in cache : e[1] = key
    THEN (CHOOSE e \in cache : e[1] = key)[2]
    ELSE "None"

\* json.dumps of a column's metadata, written by the column it describes.
dumps(meta) == "{" \o meta \o "}"

\* The cache is a store outside the process: when the request starts it may
\* already hold, under the request's key, the metadata of one of the columns.
StreamInit ==
    /\ spc = "start"
    /\ sreq \in StreamRequests
    /\ sidx = 0
    /\ semitted = <<>>
    /\ sfailed = <<>>
    /\ slog = <<>>
    /\ scache \in {{}} \cup {{<<make_cache_key(sreq, c), c>>} : c \in ColNames}
    /\ sraised = "none"
    /\ MarkersOff
    /\ ColumnsOff
    /\ ResampleOff
    /\ RequestsOff
    /\ FetchOff
    /\ OthersOff

\* post up to the return of the Response: the dataset is opened, the
\* generator is created and nothing has been yielded yet.
StreamOpen ==
    /\ spc = "start"
    /\ IF sreq.urlOk
          THEN spc' = "open" /\ sraised' = sraised
          ELSE spc' = "rejected" /\ sraised' = "ReadZarrError"
    /\ UNCHANGED <<sreq, sidx, semitted, sfailed, slog, scache, mvars, cvars, rvars, qvars, fvars, ovars>>

\* yield "["
StreamBegin ==
    /\ spc = "open"
    /\ semitted' = <<"[">>
    /\ spc' = "columns"
    /\ UNCHANGED <<sreq, sidx, sfailed, slog, scache, sraised, mvars, cvars, rvars, qvars, fvars, ovars>>

\* One turn of `for col in cols`. On a cache hit the cached value is the
\* column's metadata. On a miss the call get_obs_col_metadata(adata_group,
\* col=col, ...) is made: the function's parameter is `cols`, so binding the
\* keyword `col` raises TypeError; the handler around the call catches only
\* ReadZarrError, so the exception leaves generate() and the stream stops.
StreamColumn ==
    /\ spc = "columns"
    /\ sidx < Len(sreq.cols)
    /\ LET col == sreq.cols[sidx + 1]
           cached_metadata == cache_get(scache, make_cache_key(sreq, col))
           first == Len(semitted) = 1
       IN  IF cached_metadata # "None"
           THEN /\ semitted' = semitted \o (IF first THEN <<>> ELSE <<",">>)
                                        \o <<dumps(cached_metadata)>>
                /\ sidx' = sidx + 1
                /\ UNCHANGED <<spc, sfailed, sraised>>
           ELSE /\ sfailed' = Append(sfailed, col)
                /\ sraised' = "TypeError"
                /\ spc' = "aborted"
                /\ UNCHANGED <<semitted, sidx>>
    /\ UNCHANGED <<sreq, slog, scache, mvars, cvars, rvars, qvars, fvars, ovars>>

\* yield "]"
StreamEnd ==
    /\ spc = "columns"
    /\ sidx = Len(sreq.cols)
    /\ semitted' = Append(semitted, "]")
    /\ spc' = "closed"
    /\ UNCHANGED <<sreq, sidx, sfailed, slog, scache, sraised, mvars, cvars, rvars, qvars, fvars, ovars>>

StreamNext ==
    \/ StreamOpen
    \/ StreamBegin
    \/ StreamColumn
    \/ StreamEnd

StreamSpec == StreamInit /\ [][StreamNext]_vars

\* The stream is over: generate() returned or an exception left it.
StreamOver == spc \in {"closed", "aborted"}

\* C20: whenever the streamed obs/cols response is over and the metadata
\* computation of some column failed, the failure was logged, the loop went
\* on through every remaining column, and the response was terminated.
C20_Original ==
    (StreamOver /\ sfailed # <<>>) =>
        /\ slog = sfailed
        /\ sidx = Len(sreq.cols)
        /\ spc = "closed"
        /\ semitted[Len(semitted)] = "]"

\* C21: whenever resolving the marker of a request raises InvalidVar inside
\* an entry point that gets as far as resolving it, the request ends in
\* InvalidVar with status 400: the error is not converted and not recovered.
C21_Original ==
    (/\ Returned
     /\ qreq.entry \in {"dotplot", "violin", "obs_histograms", "var_histograms",
                        "matrix_mean", "pseudospatial_gene"}
     /\ qreq.entry = "violin" => qreq.mode = "multikey"
     /\ qreq.entry = "obs_histograms" => qreq.colPresent
     /\ qreq.mask = "present"
     /\ qreq.format \in {"", "png", "json"}
     /\ RequestMarker(qreq).err = "InvalidVar") =>
        qout.status = "InvalidVar" /\ qout.code = 400

\* The status each error kind of the taxonomy is to carry.
TaxonomyCodes(kind) ==
    CASE kind = "BadRequest" -> {400}
      [] kind = "InvalidVar" -> {400}
      [] kind = "InvalidObs" -> {400}
      [] kind = "ReadZarrError" -> {400}
      [] kind = "NotInData" -> {404}
      [] kind = "FetchError" -> {500, 502}
      [] kind = "InternalServerError" -> {500}

TaxonomyKinds ==
    {"BadRequest", "InvalidVar", "InvalidObs", "ReadZarrError", "NotInData",
     "FetchError", "InternalServerError"}

\* C22: every error kind of the taxonomy carries a message and its fixed
\* default status code, every request that ends in one of these kinds ends
\* with that code, and a request that names a mask set which is missing or
\* has no polygons ends in NotInData with status 404.
C22_ErrorTaxonomy ==
    /\ \A k \in TaxonomyKinds :
          /\ k \in ErrorKinds
          /\ StatusCode(k) \in TaxonomyCodes(k)
          /\ DefaultMessage(k) # ""
    /\ (qpc \in {"returned", "done"} /\ qout.status \in TaxonomyKinds) =>
          qout.code \in TaxonomyCodes(qout.status)
    /\ (Returned /\ qreq.entry \in PseudospatialEntries /\ qreq.mask # "present") =>
          qout.status = "NotInData" /\ qout.code = 404

C22_Witness ==
    /\ qpc = "done"
    /\ qreq.entry = "pseudospatial_gene"
    /\ qreq.mask = "nopolygons"
    /\ qout.status = "NotInData"
    /\ qout.code = 404

\* ---------------------------------------------------------------------------
\* make_cache_key: the fingerprint of a request.

\* A request body is [kind, items]: no body or one that does not parse
\* ("absent"), null, false, true, a list of strings ("list", the items are the
\* elements) or an object ("obj", the items are the <<key, value>> members in
\* the order they were written).
BodyKeys == {"col", "url"}
BodyVals == {"x", "y"}

Atom(kind) == [kind |-> kind, items |-> <<>>]

ObjBodies ==
    {[kind |-> "obj", items |-> q] :
        q \in {m \in SeqsUpTo(BodyKeys \X BodyVals, 2) :
                  \A i, j \in DOMAIN m : i # j => m[i][1] # m[j][1]}}

ListBodies == {[kind |-> "list", items |-> <<>>], [kind |-> "list", items |-> <<"x">>]}

RequestBodies ==
    {Atom("absent"), Atom("null"), Atom("false"), Atom("true")}
        \cup ListBodies \cup ObjBodies

Methods == {"GET", "POST"}
Paths == {"/obs/cols", "/var/names"}

\* What the caller hands to make_cache_key: nothing, or request_data and chunk.
KeyArgs == {"none", "chunk"}

\* request.get_json(silent=True): None when there is no body or it does not
\* parse, the parsed value otherwise.
get_json(body) == IF body.kind = "absent" THEN Atom("null") ELSE body

\* bool(value) as Python's `or` takes it.
Truthy(value) ==
    CASE value.kind \in {"null", "false"} -> FALSE
      [] value.kind = "true" -> TRUE
      [] OTHER -> value.items # <<>>

\* Alphabetical order of the keys.
KeyRank(k) == IF k = "col" THEN 1 ELSE 2

\* The members of an object in key order.
SortItems(items) ==
    IF Len(items) = 2 /\ KeyRank(items[1][1]) > KeyRank(items[2][1])
    THEN <<items[2], items[1]>>
    ELSE items

\* json.dumps(value): the members of an object in the order they were written.
dumps_unsorted(value) == value

\* json.dumps(value, sort_keys=True): the members of an object in key order,
\* the elements of a list in their own order.
dumps_sorted(value) ==
    IF value.kind = "obj"
    THEN [kind |-> "obj", items |-> SortItems(value.items)]
    ELSE value

\* data_str of make_cache_key, of which the key is the md5 digest: method,
\* path and `request.get_json(silent=True) or {}`. Neither the arguments nor
\* anything else is read.
data_str(method, path, body, args, now) ==
    LET parsed == get_json(body)
    IN  [method |-> method, path |-> path,
         body |-> dumps_sorted(IF Truthy(parsed) THEN parsed
                               ELSE [kind |-> "obj", items |-> <<>>])]

Keyed(method, path, body, args, now) ==
    [method |-> method, path |-> path, body |-> body, args |-> args,
     now |-> now, key |-> data_str(method, path, body, args, now)]

KeyInit ==
    /\ kpc = "first"
    /\ kfirst = NoKeyed
    /\ ksecond = NoKeyed
    /\ MarkersOff
    /\ ColumnsOff
    /\ ResampleOff
    /\ RequestsOff
    /\ FetchOff
    /\ StreamOff
    /\ ThreadsOff
    /\ BackendOff

\* A request arrives and its key is computed.
FirstKey ==
    /\ kpc = "first"
    /\ \E m \in Methods, p \in Paths, b \in RequestBodies, a \in KeyArgs :
          kfirst' = Keyed(m, p, b, a, 0)
    /\ kpc' = "second"
    /\ UNCHANGED <<ksecond, mvars, cvars, rvars, qvars, fvars, svars, tvars, bvars>>

\* A later request arrives and its key is computed.
SecondKey ==
    /\ kpc = "second"
    /\ \E m \in Methods, p \in Paths, b \in RequestBodies, a \in KeyArgs :
          ksecond' = Keyed(m, p, b, a, 1)
    /\ kpc' = "done"
    /\ UNCHANGED <<kfirst, mvars, cvars, rvars, qvars, fvars, svars, tvars, bvars>>

KeyNext == FirstKey \/ SecondKey

KeySpec == KeyInit /\ [][KeyNext]_vars

\* Two bodies are the same JSON value: objects whatever the order of their
\* members.
SameBody(a, b) ==
    /\ a.kind = b.kind
    /\ IF a.kind = "obj"
       THEN {a.items[i] : i \in DOMAIN a.items} = {b.items[i] : i \in DOMAIN b.items}
       ELSE a.items = b.items

SameRequest(a, b) ==
    a.method = b.method /\ a.path = b.path /\ SameBody(a.body, b.body)

\* C23 as stated: two requests with the same method, path and body get the
\* same key whatever else differs, and two requests that differ in method,
\* path or body are fingerprinted from different canonical strings.
C23_Original ==
    kpc = "done" => (SameRequest(kfirst, ksecond) <=> kfirst.key = ksecond.key)

\* A body that is missing, does not parse or is falsy counts as {}.
EffectiveBody(b) ==
    IF b.kind \in {"absent", "null", "false"} \/ (b.kind \in {"list", "obj"} /\ b.items = <<>>)
    THEN [kind |-> "obj", items |-> <<>>]
    ELSE b

\* C23 (amended): two requests get the same canonical string exactly when
\* they have the same method, the same path and the same body, where a body
\* that is missing, unparsable or falsy (null, false, [], {}) counts as the
\* empty object and the order of an object's members does not count; the
\* arguments passed and the time of the call play no part.
C23_KeyOfCanonicalBody ==
    kpc = "done" =>
        ((/\ kfirst.method = ksecond.method
          /\ kfirst.path = ksecond.path
          /\ SameBody(EffectiveBody(kfirst.body), EffectiveBody(ksecond.body)))
            <=> kfirst.key = ksecond.key)

C23_Witness ==
    /\ kpc = "done"
    /\ kfirst.body.kind = "obj"
    /\ Len(kfirst.body.items) = 2
    /\ kfirst.body # ksecond.body
    /\ SameBody(kfirst.body, ksecond.body)
    /\ kfirst.args # ksecond.args
    /\ kfirst.key = ksecond.key

\* ---------------------------------------------------------------------------
\* resample called by two requests served by two threads of one process:
\* np.random.seed and np.random.choice act on the generator of the module,
\* which the threads share; each call is one step, and the steps of the two
\* threads interleave in any order.

\* resample(data, nsamples) run alone from start to end: [err, out].
resample(data, nsamples) ==
    LET NDRAWS == Len(data) * DrawsPerItem
        seeded == RngSeed(nsamples)
        all_ids == UniformChoice(seeded, Inverse(data), NDRAWS)
        ar == Bincount(all_ids)
        after == RngStates(seeded, NDRAWS)[NDRAWS]
    IN  IF Len(ar) # Len(Unique(data))
        THEN [err |-> "ValueError", out |-> initial_resamples(data)]
        ELSE [err |-> "none",
              out |-> initial_resamples(data)
                        \o WeightedChoice(after, Unique(data), ar, NDRAWS, nsamples)]

Threads == {1, 2}

\* The vectors and sample counts the two requests resample.
ThreadData == {<<1, 3>>, <<5, 1, 1>>}
ThreadSamples == {1, 2}

ThreadInit ==
    /\ rng \in {0, 7}
    /\ rpc = "off"
    /\ rdata = <<>>
    /\ rn = 0
    /\ rar = <<>>
    /\ rout = <<>>
    /\ rerr = "none"
    /\ tpc = [t \in Threads |-> "start"]
    /\ tdata \in [Threads -> ThreadData]
    /\ tn \in [Threads -> ThreadSamples]
    /\ tar = [t \in Threads |-> <<>>]
    /\ tout = [t \in Threads |-> <<>>]
    /\ MarkersOff
    /\ ColumnsOff
    /\ RequestsOff
    /\ FetchOff
    /\ StreamOff
    /\ KeysOff
    /\ BackendOff

\* np.random.seed(nsamples); resamples = [data.min(), data.max()]
ThreadSeed(t) ==
    /\ tpc[t] = "start"
    /\ rng' = RngSeed(tn[t])
    /\ tout' = [tout EXCEPT ![t] = initial_resamples(tdata[t])]
    /\ tpc' = [tpc EXCEPT ![t] = "seeded"]
    /\ UNCHANGED <<tdata, tn, tar, rpc, rdata, rn, rar, rout, rerr, mvars, cvars,
                   qvars, fvars, svars, kvars, bvars>>

\* all_ids = np.random.choice(ids, size=NDRAWS); ar = np.bincount(all_ids) / NDRAWS
ThreadDrawIds(t) ==
    /\ tpc[t] = "seeded"
    /\ LET NDRAWS == Len(tdata[t]) * DrawsPerItem
       IN  /\ tar' = [tar EXCEPT ![t] =
                        Bincount(UniformChoice(rng, Inverse(tdata[t]), NDRAWS))]
           /\ rng' = RngStates(rng, NDRAWS)[NDRAWS]
    /\ tpc' = [tpc EXCEPT ![t] = "drawn"]
    /\ UNCHANGED <<tdata, tn, tout, rpc, rdata, rn, rar, rout, rerr, mvars, cvars,
                   qvars, fvars, svars, kvars, bvars>>

\* resamples.extend(np.random.choice(a=unq, size=nsamples, p=ar))
ThreadExtend(t) ==
    /\ tpc[t] = "drawn"
    /\ IF Len(tar[t]) # Len(Unique(tdata[t]))
       THEN /\ tpc' = [tpc EXCEPT ![t] = "failed"]
            /\ UNCHANGED <<tout, rng>>
       ELSE /\ tpc' = [tpc EXCEPT ![t] = "done"]
            /\ tout' = [tout EXCEPT ![t] =
                          tout[t] \o WeightedChoice(rng, Unique(tdata[t]), tar[t],
                                        Len(tdata[t]) * DrawsPerItem, tn[t])]
            /\ rng' = RngStates(rng, tn[t])[tn[t]]
    /\ UNCHANGED <<tdata, tn, tar, rpc, rdata, rn, rar, rout, rerr, mvars, cvars,
                   qvars, fvars, svars, kvars, bvars>>

ThreadNext ==
    \E t \in Threads : ThreadSeed(t) \/ ThreadDrawIds(t) \/ ThreadExtend(t)

ThreadSpec == ThreadInit /\ [][ThreadNext]_vars

\* C24: whenever a request's call resample(v, n) has ended, whatever another
\* request did in between, it obtained the samples that resample(v, n) yields
\* when run alone.
C24_Original ==
    \A t \in Threads :
        /\ tpc[t] = "done" =>
              resample(tdata[t], tn[t]).err = "none"
                  /\ tout[t] = resample(tdata[t], tn[t]).out
        /\ tpc[t] = "failed" => resample(tdata[t], tn[t]).err # "none"

\* The bin of 0-based position p when the positions 0 .. n-1 are cut into k
\* equal-width right-closed intervals with the lowest position included.
PositionBin(p, n, k) ==
    IF p = 0 THEN 0
    ELSE CHOOSE b \in 0..(k - 1) :
            /\ b * (n - 1) < p * k
            /\ p * k <= (b + 1) * (n - 1)

DiscreteBinningCase ==
    /\ colOp = "to_categorical"
    /\ creq.type = "discrete"
    /\ Cardinality(DistinctLabels(decoded)) > creq.nBins

\* C25: whenever a discrete column with more distinct values than nBins goes
\* through to_categorical, it comes back binned by position: two rows share
\* a category exactly when their positions fall in the same of the nBins
\* equal-width intervals over the position range, whatever their values, and
\* at most nBins bin categories are produced.
C25_Original ==
    DiscreteBinningCase =>
        LET n == Len(decoded.vals)
        IN  /\ cres.err = "none"
            /\ cres.binned
            /\ Len(cres.cat.codes) = n
            /\ \A i, j \in 1..n :
                 (PositionBin(i - 1, n, creq.nBins) = PositionBin(j - 1, n, creq.nBins))
                    <=> (cres.cat.codes[i] = cres.cat.codes[j])
            /\ Cardinality({cres.cat.codes[i] : i \in 1..n}) <= creq.nBins

\* C26: whenever type_numeric has run on a continuous column, its four
\* statistics are 0 if every value is missing, and otherwise are the
\* minimum, maximum, mean and median of the values present, so that
\* min <= median <= max and min <= mean <= max.
C26_NumericStatistics ==
    colOp = "type_numeric" =>
        LET idx == {i \in DOMAIN decoded.vals : ~decoded.na[i]}
            n == Cardinality(idx)
            vals == {decoded.vals[i] : i \in idx}
        IN  IF n = 0
            THEN /\ cnum.min = 0
                 /\ cnum.max = 0
                 /\ cnum.mean.num = 0
                 /\ cnum.median.num = 0
            ELSE /\ cnum.min \in vals
                 /\ cnum.max \in vals
                 /\ \A v \in vals : cnum.min <= v /\ v <= cnum.max
                 /\ cnum.mean.den = n
                 /\ cnum.mean.num = SumSeq([k \in DOMAIN decoded.vals |->
                        IF decoded.na[k] THEN 0 ELSE decoded.vals[k]])
                 /\ cnum.min * cnum.mean.den <= cnum.mean.num
                 /\ cnum.mean.num <= cnum.max * cnum.mean.den
                 /\ cnum.min * cnum.median.den <= cnum.median.num
                 /\ cnum.median.num <= cnum.max * cnum.median.den
                 /\ 2 * Cardinality({i \in idx :
                        decoded.vals[i] * cnum.median.den <= cnum.median.num}) >= n
                 /\ 2 * Cardinality({i \in idx :
                        decoded.vals[i] * cnum.median.den >= cnum.median.num}) >= n

\* The column [1.5, NaN, 10.0]: min 1.5, max 10, mean and median 5.75.
C26_Witness ==
    /\ colOp = "type_numeric"
    /\ decoded.vals = <<3, 0, 20>>
    /\ decoded.na = <<FALSE, TRUE, FALSE>>
    /\ cnum.min = 3
    /\ cnum.max = 20
    /\ cnum.mean = [num |-> 23, den |-> 2]
    /\ cnum.median = [num |-> 23, den |-> 2]

\* The column items among the chunks emitted so far.
IsItem(chunk) == chunk \notin {"[", ",", "]"}
EmittedItems == SelectSeq(semitted, IsItem)

\* C27: whenever the stream is going through the columns of a request, the
\* cache keys of two different columns of the request differ, and every item
\* emitted is the metadata of the column of its turn.
C27_Original ==
    spc \in {"columns", "closed", "aborted"} =>
        /\ \A i, j \in DOMAIN sreq.cols :
              sreq.cols[i] # sreq.cols[j] =>
                 make_cache_key(sreq, sreq.cols[i]) # make_cache_key(sreq, sreq.cols[j])
        /\ Len(EmittedItems) <= Len(sreq.cols)
        /\ \A k \in DOMAIN EmittedItems : EmittedItems[k] = dumps(sreq.cols[k])

\* '[' then the items with one ',' between neighbours, then ']'.
Joined(items) ==
    <<"[">> \o [k \in 1..(IF items = <<>> THEN 0 ELSE 2 * Len(items) - 1) |->
                  IF k % 2 = 1 THEN items[(k + 1) \div 2] ELSE ","]
            \o <<"]">>

\* C28: whenever the obs/cols stream is over, whatever mix of cached,
\* computed, failed and empty columns it went through, the chunks it yielded
\* are '[', the emitted items separated by exactly one ',' each, and ']'.
C28_Original == StreamOver => semitted = Joined(EmittedItems)

\* ---------------------------------------------------------------------------
\* SafeRedisCache: the cache object of the application over a Redis backend
\* whose connection may fail at any time.

CacheKeys == {"k1", "k2"}
CacheValues == {"x", "y"}

CacheOp(op, key, value, up) == [op |-> op, key |-> key, value |-> value, up |-> up]
Returns(value) == [raised |-> "none", value |-> value]
Raises(kind) == [raised |-> kind, value |-> "none"]

Held(store, key) == \E e \in store : e[1] = key
ValueOf(store, key) == (CHOOSE e \in store : e[1] = key)[2]
Without(store, key) == {e \in store : e[1] # key}

\* RedisCache.get / set / delete / clear with a working connection: what the
\* call returns.
BackendResult(op, store, key) ==
    CASE op = "get" -> IF Held(store, key) THEN ValueOf(store, key) ELSE "None"
      [] op = "set" -> "True"
      [] op = "delete" -> IF Held(store, key) THEN "True" ELSE "False"
      [] op = "clear" -> "True"

\* get, set, delete, clear of SafeRedisCache: super()'s call inside
\* try / except redis.ConnectionError, which is logged; get then returns
\* None and the others False.
SafeCall(op, up, store, key) ==
    IF up THEN Returns(BackendResult(op, store, key))
    ELSE Returns(IF op = "get" THEN "None" ELSE "False")

\* inc and dec of SafeRedisCache are declared inc(self) and dec(self) and
\* call super().inc() and super().dec() with no argument, while RedisCache
\* declares inc(self, key, delta=1): called with a key the override does not
\* bind it, called without one super() lacks it. Either way the call raises
\* TypeError, which is not redis.ConnectionError.
SafeCount(op, up, store, key) == Raises("TypeError")

CacheInit ==
    /\ bup \in BOOLEAN
    /\ bstore \in {{}, {<<"k1", "x">>}}
    /\ bop = NoCacheOp
    /\ bret = NoCacheRet
    /\ MarkersOff
    /\ ColumnsOff
    /\ ResampleOff
    /\ RequestsOff
    /\ FetchOff
    /\ StreamOff
    /\ KeysOff
    /\ ThreadsOff

\* The connection to the backend is lost or comes back.
BackendFlips ==
    /\ bup' = ~bup
    /\ UNCHANGED <<bstore, bop, bret, mvars, cvars, rvars, qvars, fvars, svars, kvars, tvars>>

CacheGet ==
    /\ \E k \in CacheKeys :
          /\ bop' = CacheOp("get", k, "", bup)
          /\ bret' = SafeCall("get", bup, bstore, k)
    /\ UNCHANGED <<bup, bstore, mvars, cvars, rvars, qvars, fvars, svars, kvars, tvars>>

CacheSet ==
    /\ \E k \in CacheKeys, v \in CacheValues :
          /\ bop' = CacheOp("set", k, v, bup)
          /\ bret' = SafeCall("set", bup, bstore, k)
          /\ bstore' = IF bup THEN Without(bstore, k) \cup {<<k, v>>} ELSE bstore
    /\ UNCHANGED <<bup, mvars, cvars, rvars, qvars, fvars, svars, kvars, tvars>>

CacheDelete ==
    /\ \E k \in CacheKeys :
          /\ bop' = CacheOp("delete", k, "", bup)
          /\ bret' = SafeCall("delete", bup, bstore, k)
          /\ bstore' = IF bup THEN Without(bstore, k) ELSE bstore
    /\ UNCHANGED <<bup, mvars, cvars, rvars, qvars, fvars, svars, kvars, tvars>>

CacheClear ==
    /\ bop' = CacheOp("clear", "", "", bup)
    /\ bret' = SafeCall("clear", bup, bstore, "")
    /\ bstore' = IF bup THEN {} ELSE bstore
    /\ UNCHANGED <<bup, mvars, cvars, rvars, qvars, fvars, svars, kvars, tvars>>

CacheInc ==
    /\ \E k \in CacheKeys :
          /\ bop' = CacheOp("inc", k, "", bup)
          /\ bret' = SafeCount("inc", bup, bstore, k)
    /\ UNCHANGED <<bup, bstore, mvars, cvars, rvars, qvars, fvars, svars, kvars, tvars>>

CacheDec ==
    /\ \E k \in CacheKeys :
          /\ bop' = CacheOp("dec", k, "", bup)
          /\ bret' = SafeCount("dec", bup, bstore, k)
    /\ UNCHANGED <<bup, bstore, mvars, cvars, rvars, qvars, fvars, svars, kvars, tvars>>

CacheNext ==
    \/ BackendFlips
    \/ CacheGet
    \/ CacheSet
    \/ CacheDelete
    \/ CacheClear
    \/ CacheInc
    \/ CacheDec

CacheSpec == CacheInit /\ [][CacheNext]_vars

\* C29: whenever an operation of the cache has been called, it raised
\* nothing; called while the connection was down, get returned None and
\* set, delete, clear, inc and dec returned False.
C29_Original ==
    bop.op # "none" =>
        /\ bret.raised = "none"
        /\ ~bop.up => bret.value = (IF bop.op = "get" THEN "None" ELSE "False")

\* The number of selected rows of the histogram request.
SelectedCount ==
    IF chist.rows.none THEN Len(cres.cat.codes) ELSE Len(chist.rows.rows)

\* The number of selected rows whose category is the k-th.
SelectedIn(k) ==
    LET sel == SelectedRows(Len(cres.cat.codes), chist.rows)
    IN  Cardinality({j \in DOMAIN sel : cres.cat.codes[sel[j] + 1] = k - 1})

\* The marker values of the selected rows (feature 0).
SelectedValues ==
    LET sel == SelectedRows(Len(cres.cat.codes), chist.rows)
    IN  {XAt(sel[j], 0) : j \in DOMAIN sel}

\* C30: get_obs_col_histograms with a scalar marker returns one histogram
\* per category of the categorical column, all over the common range
\* [min, max] of the selected rows' marker values (max raised by 1 when
\* min = max, [0, 1] when no row is selected); the counts of a category sum
\* to the number of selected rows in it, and all counts together sum to the
\* number of selected rows.
C30_Original ==
    colOp = "get_obs_col_histograms" =>
        /\ chist.err = "none"
        /\ Len(chist.hists) = Len(chist.cats)
        /\ chist.cats = cres.cat.cats
        /\ IF SelectedCount = 0
           THEN chist.lo = 0 /\ chist.hi = 1
           ELSE /\ chist.lo \in SelectedValues
                /\ \A v \in SelectedValues : chist.lo <= v
                /\ LET mx == CHOOSE v \in SelectedValues :
                                 \A w \in SelectedValues : w <= v
                   IN  chist.hi = IF mx = chist.lo THEN mx + 1 ELSE mx
        /\ \A k \in DOMAIN chist.hists : SumSeq(chist.hists[k]) = SelectedIn(k)
        /\ SumSeq([k \in DOMAIN chist.hists |-> SumSeq(chist.hists[k])])
               = SelectedCount

====
